---------------------------- MODULE Spec2Model ----------------------------
(***************************************************************************)
(* A model of the CSRF protection of askeladdk/httpsy: the masked-token    *)
(* (double submit cookie) codec and handler of csrf.go, and the signed     *)
(* (HMAC) codecs and handlers, session-bound and sessionless.              *)
(*                                                                         *)
(* Bytes are 8 bits wide.  The token length is scaled down from 32 bytes   *)
(* (TokenLen) and the signed token's two 64-bit fields are scaled down to  *)
(* FieldBytes bytes each; everything else is computed as the code          *)
(* computes it.                                                            *)
(***************************************************************************)
EXTENDS Integers, Sequences, FiniteSets, TLC

(***************************************************************************)
(* Bounds of the model.                                                    *)
(***************************************************************************)
\* csrfTokenLength of the model (32 in the source). 2 keeps the padding of
\* the source: 32 = 2 (mod 3) bytes encode with one "=", 64 = 1 (mod 3)
\* bytes with two.
TokenLen == 2
\* The most bytes a malformed token is longer than a genuine one.
MaxExtra == 3
\* The width in bytes of each of the signed token's two time fields (8 in
\* the source: binary.LittleEndian.PutUint64).
FieldBytes == 2
\* Clock ticks per second (10^9 nanoseconds in the source).
TicksPerSecond == 2
\* The clock reading, in ticks since the Unix epoch, when the model starts.
StartTime == 8
\* The clock advances at most to StartTime + MaxElapsed.
MaxElapsed == 4
\* Token lifetimes range over -MaxDuration..MaxDuration ticks.
MaxDuration == 2
\* The longest session identifier, in bytes.
MaxSessionLen == 1
\* The most tokens the client holds on to.
MaxIssued == 1
MaxConcurrent == 2
MaxWraps == 3
MaxChain == 3
MaxCalls == 3
MaxUses == 2

\* The byte values secrets, cookie tokens and nonces are drawn from.
ByteVals == {90, 165}

NoValue == <<>>

(***************************************************************************)
(* Bytes and bit operations.                                               *)
(***************************************************************************)
RECURSIVE xorBits(_, _, _)
xorBits(a, b, n) ==
    IF n = 0 THEN 0
    ELSE (((a % 2) + (b % 2)) % 2) + 2 * xorBits(a \div 2, b \div 2, n - 1)

\* pad[i] ^= key[i] on one byte
xorByte(a, b) == xorBits(a, b, 8)

\* All byte strings of length n over the set vals.
BytesOf(vals, n) == [1..n -> vals]

Zeros(n) == [i \in 1..n |-> 0]

(***************************************************************************)
(* encoding/base64 (URLEncoding and StdEncoding, both padded).  A          *)
(* character is its index in the alphabet, 0..63; the two alphabets differ *)
(* in the glyphs of 62 and 63 only.  Three more characters stand for the   *)
(* rest of the byte range: the padding character, a line break (which the  *)
(* decoder skips) and a character outside the alphabet.                    *)
(***************************************************************************)
b64Radix == 2^6
padChar == b64Radix
nlChar == b64Radix + 1
badChar == b64Radix + 2

\* The 1..4 characters of one quantum of 1..3 bytes, before padding.
encodeQuantum(bs) ==
    LET b0 == bs[1]
        b1 == IF Len(bs) >= 2 THEN bs[2] ELSE 0
        b2 == IF Len(bs) >= 3 THEN bs[3] ELSE 0
        val == b0 * 65536 + b1 * 256 + b2
        c0 == val \div 262144
        c1 == (val \div 4096) % 64
        c2 == (val \div 64) % 64
        c3 == val % 64
    IN  IF Len(bs) >= 3 THEN <<c0, c1, c2, c3>>
        ELSE IF Len(bs) = 2 THEN <<c0, c1, c2, padChar>>
        ELSE <<c0, c1, padChar, padChar>>

RECURSIVE b64Encode(_)
b64Encode(bs) ==
    IF Len(bs) = 0 THEN <<>>
    ELSE IF Len(bs) <= 3 THEN encodeQuantum(bs)
    ELSE encodeQuantum(SubSeq(bs, 1, 3)) \o b64Encode(SubSeq(bs, 4, Len(bs)))

RECURSIVE skipNewlines(_, _)
skipNewlines(src, si) ==
    IF si <= Len(src) /\ src[si] = nlChar THEN skipNewlines(src, si + 1) ELSE si

\* The reading loop of decodeQuantum: si is the next character to read, dbuf
\* the 6-bit values read so far.  abort: the quantum returns no bytes.
RECURSIVE readQuantum(_, _, _)
readQuantum(src, si, dbuf) ==
    LET j == Len(dbuf)
        Abort(e) == [si |-> si, dbuf |-> dbuf, dlen |-> 0, err |-> e, abort |-> TRUE]
    IN  IF j = 4
          THEN [si |-> si, dbuf |-> dbuf, dlen |-> 4, err |-> FALSE, abort |-> FALSE]
        ELSE IF si > Len(src)
          THEN Abort(j # 0)
        ELSE IF src[si] < b64Radix
          THEN readQuantum(src, si + 1, Append(dbuf, src[si]))
        ELSE IF src[si] = nlChar
          THEN readQuantum(src, si + 1, dbuf)
        ELSE IF src[si] # padChar
          THEN Abort(TRUE)
        ELSE IF j < 2
          THEN Abort(TRUE)
        ELSE IF j = 2
          THEN LET s2 == skipNewlines(src, si + 1)
               IN  IF s2 > Len(src) \/ src[s2] # padChar
                     THEN Abort(TRUE)
                   ELSE LET s3 == skipNewlines(src, s2 + 1)
                        IN  [si |-> s3, dbuf |-> dbuf, dlen |-> 2,
                             err |-> s3 <= Len(src), abort |-> FALSE]
        ELSE LET s3 == skipNewlines(src, si + 1)
             IN  [si |-> s3, dbuf |-> dbuf, dlen |-> 3,
                  err |-> s3 <= Len(src), abort |-> FALSE]

\* The bytes a quantum of dlen characters holds: dlen - 1 of them.
quantumBytes(dbuf, dlen) ==
    LET d(i) == IF i <= Len(dbuf) THEN dbuf[i] ELSE 0
        val == d(1) * 262144 + d(2) * 4096 + d(3) * 64 + d(4)
        all == <<val \div 65536, (val \div 256) % 256, val % 256>>
    IN  SubSeq(all, 1, dlen - 1)

\* Encoding.Decode(dst, src) with len(dst) = dstLen: the bytes written, the
\* error flag, and panic when a quantum holds more bytes than dst has left
\* (decodeQuantum writes dst[2], dst[1], dst[0] unchecked).
RECURSIVE decodeFrom(_, _, _, _)
decodeFrom(dstLen, src, si, out) ==
    IF si > Len(src)
      THEN [bytes |-> out, err |-> FALSE, panic |-> FALSE]
    ELSE LET q == readQuantum(src, si, <<>>)
         IN  IF q.abort
               THEN [bytes |-> out, err |-> q.err, panic |-> FALSE]
             ELSE IF Len(out) + q.dlen - 1 > dstLen
               THEN [bytes |-> out, err |-> FALSE, panic |-> TRUE]
             ELSE IF q.err
               THEN [bytes |-> out \o quantumBytes(q.dbuf, q.dlen),
                     err |-> TRUE, panic |-> FALSE]
             ELSE decodeFrom(dstLen, src, q.si, out \o quantumBytes(q.dbuf, q.dlen))

b64Decode(dstLen, src) == decodeFrom(dstLen, src, 1, <<>>)

\* Encoding.DecodedLen for a padded encoding.
b64DecodedLen(n) == (n \div 4) * 3

\* Encoding.DecodeString: the buffer is allocated to DecodedLen(len(s)).
b64DecodeString(s) == b64Decode(b64DecodedLen(Len(s)), s)


(***************************************************************************)
(* The masked-token codec (double submit cookie variant).                  *)
(***************************************************************************)
csrfTokenLength == TokenLen

\* for i := range key { pad[i] ^= key[i] }; the keys of this program are
\* never longer than the pad.
oneTimePad(pad, key) ==
    [i \in 1..Len(pad) |-> IF i <= Len(key) THEN xorByte(pad[i], key[i]) ELSE pad[i]]

nonceOf(buf) == SubSeq(buf, 1, csrfTokenLength)
tokenOf(buf) == SubSeq(buf, csrfTokenLength + 1, 2 * csrfTokenLength)

\* A faulty csrfMask that leaves out the nonce pad.
csrfMaskSecretOnly(secret, unmasked, noise) ==
    noise \o oneTimePad(tokenOf(unmasked), secret)

\* csrfMask with the bytes randomNoise writes into the nonce given as noise.
csrfMask(secret, unmasked, noise) ==
    noise \o oneTimePad(oneTimePad(tokenOf(unmasked), noise), secret)

\* A faulty csrfUnmask that leaves out the nonce pad.
csrfUnmaskNoNonce(secret, masked) ==
    nonceOf(masked) \o oneTimePad(tokenOf(masked), secret)

csrfUnmask(secret, masked) ==
    nonceOf(masked) \o oneTimePad(oneTimePad(tokenOf(masked), secret), nonceOf(masked))

\* A faulty csrfVerify that compares the first byte only.
csrfVerifyPrefixCompare(secret, unmaskedRealToken, maskedSentToken) ==
    LET rbuf == b64Decode(csrfTokenLength, unmaskedRealToken)
        sbuf == b64Decode(2 * csrfTokenLength, maskedSentToken)
    IN  IF rbuf.panic \/ sbuf.panic THEN "panic"
        ELSE IF Len(rbuf.bytes) # csrfTokenLength THEN "false"
        ELSE IF Len(sbuf.bytes) # 2 * csrfTokenLength THEN "false"
        ELSE IF rbuf.bytes[1] = tokenOf(csrfUnmask(secret, sbuf.bytes))[1] THEN "true"
        ELSE "false"

\* csrfVerify: "true", "false", or "panic" when a base64 decode overruns its
\* fixed buffer.
csrfVerify(secret, unmaskedRealToken, maskedSentToken) ==
    LET rbuf == b64Decode(csrfTokenLength, unmaskedRealToken)
    IN  IF rbuf.panic THEN "panic"
        ELSE IF Len(rbuf.bytes) # csrfTokenLength THEN "false"
        ELSE LET sbuf == b64Decode(2 * csrfTokenLength, maskedSentToken)
             IN  IF sbuf.panic THEN "panic"
                 ELSE IF Len(sbuf.bytes) # 2 * csrfTokenLength THEN "false"
                 ELSE IF rbuf.bytes = tokenOf(csrfUnmask(secret, sbuf.bytes))
                   THEN "true"
                 ELSE "false"

(***************************************************************************)
(* The signed-token codec (HMAC, session-bound variant).                   *)
(*                                                                         *)
(* A time is a number of clock ticks since the Unix epoch; time.Time's     *)
(* Unix() is its whole seconds and UnixNano() its ticks.                   *)
(***************************************************************************)
\* uint64(v) stored little-endian (binary.LittleEndian.PutUint64), at the
\* model's field width.
putUint(v) ==
    [i \in 1..FieldBytes |-> ((v % (256^FieldBytes)) \div (256^(i - 1))) % 256]

RECURSIVE leSum(_, _)
leSum(bs, i) ==
    IF i > Len(bs) THEN 0 ELSE bs[i] * (256^(i - 1)) + leSum(bs, i + 1)

\* int64(binary.LittleEndian.Uint64(bs))
getInt(bs) ==
    LET u == leSum(bs, 1)
    IN  IF 2 * u >= 256^FieldBytes THEN u - 256^FieldBytes ELSE u

\* Time.Unix(): seconds since the epoch, rounded down.
unixSeconds(t) == t \div TicksPerSecond

\* Time.UnixNano(): ticks since the epoch.
unixNano(t) == t

\* time.Unix(sec, nsec): nsec may lie outside [0, 1 second).
timeUnix(sec, nsec) == sec * TicksPerSecond + nsec

\* The identifiers a session can have: the byte strings over "A", "B" of
\* at most MaxSessionLen bytes (the empty one included).
SessionIDs == UNION {BytesOf({65, 66}, n) : n \in 0..MaxSessionLen}

\* The length of a MAC (sha256.Size, 32, in the source): long enough to hold
\* any message of the model and its length.
macLength == 2 * FieldBytes + MaxSessionLen + 1

\* hmac.New(sha256.New, key) over msg.  The keyed hash is taken to be
\* collision-free: the model's MAC is an injective function of the message
\* (its length and bytes, each shifted by a byte of the key).
hmacSum(key, msg) ==
    LET m == <<Len(msg)>> \o msg \o Zeros(macLength)
    IN  [i \in 1..macLength |-> (m[i] + key[((i - 1) % Len(key)) + 1] + i) % 256]

\* A faulty MAC input that leaves out the session ID.
macInputNoSession(buf, sessionID) == buf

\* What the MAC is taken over: h.Write(buf); h.Write([]byte(sessionID)).

macInput(buf, sessionID) == buf \o sessionID

csrfSignedLength == 2 * FieldBytes + macLength

\* csrfCreateToken(secret, sessionID, d) called when the clock reads now.
csrfCreateToken(secret, sessionID, d, now) ==
    LET endTime == now + d
        buf == putUint(unixSeconds(endTime)) \o putUint(unixNano(endTime))
    IN  buf \o hmacSum(secret, macInput(buf, sessionID))

\* A faulty csrfVerifyToken that reads the expiry without checking the MAC.
csrfVerifyTokenNoSignature(secret, token, sessionID, now) ==
    IF Len(token) # csrfSignedLength THEN FALSE
    ELSE LET secs == getInt(SubSeq(token, 1, FieldBytes))
             nsec == getInt(SubSeq(token, FieldBytes + 1, 2 * FieldBytes))
         IN  now < timeUnix(secs, nsec)

\* csrfVerifyToken(secret, token, sessionID) called when the clock reads now.
csrfVerifyToken(secret, token, sessionID, now) ==
    IF Len(token) # csrfSignedLength THEN FALSE
    ELSE LET buf == SubSeq(token, 1, 2 * FieldBytes)
             mac == hmacSum(secret, macInput(buf, sessionID))
         IN  IF SubSeq(token, 2 * FieldBytes + 1, Len(token)) # mac THEN FALSE
             ELSE LET secs == getInt(SubSeq(token, 1, FieldBytes))
                      nsec == getInt(SubSeq(token, FieldBytes + 1, 2 * FieldBytes))
                  IN  now < timeUnix(secs, nsec)

\* The secret key of the signed variants ("sk").
SignSecret == <<115, 107>>

\* The sessionless signed variant: csrfCreateToken(secret) is base64 of
\* noise || MAC(noise), with the bytes randomNoise writes given as noise.
csrfSessionlessLength == csrfTokenLength + macLength

csrfCreateTokenSessionless(secret, noise) ==
    b64Encode(noise \o hmacSum(secret, noise))

\* A faulty sessionless csrfVerifyToken that checks the length only.
csrfVerifyTokenLengthOnly(secret, token) ==
    Len(token) = csrfSessionlessLength

\* csrfVerifyToken(secret, token) of the sessionless variant.
csrfVerifyTokenSessionless(secret, token) ==
    IF Len(token) # csrfSessionlessLength THEN FALSE
    ELSE SubSeq(token, csrfTokenLength + 1, Len(token)) =
             hmacSum(secret, SubSeq(token, 1, csrfTokenLength))

(***************************************************************************)
(* Requests.  A request is a record of the parts the CSRF handlers read:   *)
(*   method, scheme, host, path   r.Method and r.URL                       *)
(*   origin, referer, xfh, hostHdr  the Origin, Referer, X-Forwarded-Host  *)
(*                                and Host headers                         *)
(*   header, form, multipart      the X-CSRF-Token header, the post form   *)
(*                                value and the multipart form values      *)
(*   cookie                       the value of the CSRF cookie             *)
(*   session                      what SessionFunc returns for the request *)
(* A header or cookie that is absent is the empty string, as Header.Get    *)
(* gives it.  A URL string is a sequence of lexemes, a path a sequence of  *)
(* characters.                                                             *)
(***************************************************************************)

\* Safe reports whether the request method is GET, HEAD, OPTIONS or TRACE.
Safe(method) == method \in {"GET", "HEAD", "OPTIONS", "TRACE"}

\* path.Match(pattern, name) for patterns of literals, '?' and '*': neither
\* wildcard matches a '/'.
RECURSIVE globMatch(_, _, _, _)
globMatch(pattern, i, name, j) ==
    IF i > Len(pattern) THEN j > Len(name)
    ELSE IF pattern[i] = "*"
         THEN \E k \in j..(Len(name) + 1) :
                  /\ \A x \in j..(k - 1) : name[x] # "/"
                  /\ globMatch(pattern, i + 1, name, k)
    ELSE IF pattern[i] = "?"
         THEN j <= Len(name) /\ name[j] # "/"
              /\ globMatch(pattern, i + 1, name, j + 1)
    ELSE j <= Len(name) /\ name[j] = pattern[i]
         /\ globMatch(pattern, i + 1, name, j + 1)

pathMatch(pattern, name) == globMatch(pattern, 1, name, 1)

\* stringsMatch reports whether v matches any of the patterns.
stringsMatch(patterns, v) ==
    \E i \in 1..Len(patterns) : pathMatch(patterns[i], v)

\* url.Parse of a header value: a value that starts with "://" has no
\* scheme and is an error; scheme "://" host gives both; anything else is a
\* path, with neither scheme nor host.
urlParse(s) ==
    IF Len(s) >= 1 /\ s[1] = "://"
        THEN [ok |-> FALSE, scheme |-> "", host |-> "", text |-> <<>>]
    ELSE IF Len(s) >= 3 /\ s[2] = "://"
        THEN [ok |-> TRUE, scheme |-> s[1], host |-> s[3], text |-> s]
    ELSE [ok |-> TRUE, scheme |-> "", host |-> "", text |-> s]

\* r.URL
requestURL(req) ==
    [ok |-> TRUE, scheme |-> req.scheme, host |-> req.host,
     text |-> <<req.scheme, "://", req.host>>]

\* sameOrigin: both URLs are there and agree on scheme and host.
sameOrigin(u1, u2) ==
    u1.ok /\ u2.ok /\ u1.scheme = u2.scheme /\ u1.host = u2.host

\* A faulty sourceOrigin that prefers the Referer header.
sourceOriginRefererFirst(req, fallback) ==
    IF req.referer # <<>> THEN urlParse(req.referer)
    ELSE IF req.origin # <<>> THEN urlParse(req.origin)
    ELSE fallback

\* sourceOrigin: the Origin header, else the Referer header, else the
\* fallback.
sourceOrigin(req, fallback) ==
    IF req.origin # <<>> THEN urlParse(req.origin)
    ELSE IF req.referer # <<>> THEN urlParse(req.referer)
    ELSE fallback

\* targetOrigin: the X-Forwarded-Host header, else the Host header, else
\* the fallback.
targetOrigin(req, fallback) ==
    IF req.xfh # <<>> THEN urlParse(req.xfh)
    ELSE IF req.hostHdr # <<>> THEN urlParse(req.hostHdr)
    ELSE fallback

\* ExemptFunc is nil, or a predicate on requests: the model's predicates
\* hold of the requests whose path is in a given set.
NilFunc == [set |-> FALSE, paths |-> {}]
PathFunc(ps) == [set |-> TRUE, paths |-> ps]

\* A faulty exempt that consults ExemptPaths as well as ExemptFunc.
exemptPathsOrFunc(exemptFunc, exemptPaths, req) ==
    \/ Safe(req.method)
    \/ exemptFunc.set /\ req.path \in exemptFunc.paths
    \/ stringsMatch(exemptPaths, req.path)

\* csrf.exempt(r): ExemptPaths counts only when ExemptFunc is nil.
exempt(exemptFunc, exemptPaths, req) ==
    IF Safe(req.method) THEN TRUE
    ELSE IF exemptFunc.set THEN req.path \in exemptFunc.paths
    ELSE stringsMatch(exemptPaths, req.path)

\* A faulty extractToken that reads the header only.
extractTokenHeaderOnly(req) == req.header

\* A faulty extractToken that looks at the form field first.
extractTokenFormFirst(req) ==
    IF req.form # <<>> THEN req.form
    ELSE IF req.header # <<>> THEN req.header
    ELSE IF Len(req.multipart) # 0 THEN req.multipart[1]
    ELSE <<>>

\* csrf.extractToken(r): the X-CSRF-Token header, else the post form value,
\* else the first multipart form value.
extractToken(req) ==
    IF req.header # <<>> THEN req.header
    ELSE IF req.form # <<>> THEN req.form
    ELSE IF Len(req.multipart) # 0 THEN req.multipart[1]
    ELSE <<>>

\* The session SessionFunc finds in a request.
NoSession == [ok |-> FALSE, id |-> <<>>]
Session(id) == [ok |-> TRUE, id |-> id]

Request(method, scheme, path, origin, referer, xfh, header, form, multipart, cookie, session) ==
    [method |-> method, scheme |-> scheme, host |-> "example.com",
     path |-> path, origin |-> origin, referer |-> referer, xfh |-> xfh,
     hostHdr |-> <<>>, header |-> header, form |-> form,
     multipart |-> multipart, cookie |-> cookie, session |-> session]

NoRequest ==
    Request("", "", <<>>, <<>>, <<>>, <<>>, <<>>, <<>>, <<>>, <<>>, NoSession)

(***************************************************************************)
(* Responses.  status is 0 until a status is written; panicked tells that  *)
(* the handler panicked before it wrote one; invoked tells that the        *)
(* downstream handler was called (it answers 200); checks is the set of    *)
(* verifications the handler ran.                                          *)
(***************************************************************************)
NoResponse ==
    [status |-> 0, invoked |-> FALSE, panicked |-> FALSE, vary |-> <<>>,
     csrfHeader |-> <<>>, setCookie |-> <<>>, ctxToken |-> <<>>,
     body |-> "", checks |-> {}]

\* A faulty Error that puts the failed checks into the body.
errorResponseNamingChecks(w, body, cs) ==
    [w EXCEPT !.status = 403, !.body = <<body, cs>>, !.checks = cs]

\* Error(w, r, status, err) with the text error handler, after the checks cs.
errorResponse(w, body, cs) ==
    [w EXCEPT !.status = 403, !.body = body, !.checks = cs]

\* next.ServeHTTP(w, r) with a downstream handler that answers 200.
nextResponse(w, cs) ==
    [w EXCEPT !.status = 200, !.invoked = TRUE, !.checks = cs]

\* A faulty Header().Add that adds nothing.
headerAddNothing(w, value) == w

\* w.Header().Add("Vary", value)
headerAddVary(w, value) == [w EXCEPT !.vary = Append(@, value)]

\* The secret key of the masked variant.
MaskSecret == [i \in 1..csrfTokenLength |-> 115]

\* The handler of the masked variant: CSRF.Handler.  cookieNoise and
\* nonceNoise are what randomNoise gives for the cookie token and for the
\* nonce of csrfMask.
maskedHandler(secret, exemptFunc, exemptPaths, req, cookieNoise, nonceNoise) ==
    LET w0 == headerAddVary(NoResponse, "Cookie")
        dec == b64Decode(csrfTokenLength, req.cookie)
    IN  IF dec.panic THEN [w0 EXCEPT !.panicked = TRUE]
        ELSE
        LET regen == Len(dec.bytes) # csrfTokenLength
            cookieToken == IF regen THEN cookieNoise ELSE dec.bytes
            realToken == IF regen THEN b64Encode(cookieToken) ELSE req.cookie
            w1 == IF regen THEN [w0 EXCEPT !.setCookie = realToken] ELSE w0
            rbuf == csrfMask(secret, Zeros(csrfTokenLength) \o cookieToken,
                             nonceNoise)
            maskedRealToken == b64Encode(rbuf)
            ex == exempt(exemptFunc, exemptPaths, req)
            referer == urlParse(req.referer)
            cs1 == IF ~ex /\ req.scheme = "https" THEN {"origin"} ELSE {}
            cs2 == IF ~ex THEN cs1 \cup {"token"} ELSE cs1
        IN  IF /\ ~ex
               /\ req.scheme = "https"
               /\ \/ ~referer.ok
                  \/ referer.text = <<>>
                  \/ ~sameOrigin(referer, requestURL(req))
            THEN errorResponse(w1, "Forbidden", cs1)
            ELSE
            LET verdict == IF ex THEN "true"
                           ELSE csrfVerify(secret, realToken, extractToken(req))
            IN  IF verdict = "panic"
                    THEN [w1 EXCEPT !.panicked = TRUE, !.checks = cs2]
                ELSE IF verdict = "false"
                    THEN errorResponse(w1, "csrf validation failed", cs2)
                ELSE nextResponse([w1 EXCEPT !.csrfHeader = maskedRealToken,
                                             !.ctxToken = maskedRealToken],
                                  cs2)

\* A faulty signed handler that does not bail when there is no session.
signedHandlerNoSessionCheck(secret, expires, exemptFunc, exemptPaths, req, now) ==
    LET sessionID == req.session.id
        session == req.session.ok
        ex == exempt(exemptFunc, exemptPaths, req)
        source == sourceOrigin(req, requestURL(req))
        target == targetOrigin(req, requestURL(req))
        token == b64DecodeString(extractToken(req)).bytes
        cs1 == IF ~ex /\ req.scheme = "https" THEN {"origin"} ELSE {}
        cs3 == IF ~ex THEN cs1 \cup {"token"} ELSE cs1
        w1 == IF session
                THEN [NoResponse EXCEPT !.csrfHeader =
                         b64Encode(csrfCreateToken(secret, sessionID, expires, now))]
                ELSE NoResponse
    IN  IF ~ex /\ req.scheme = "https" /\ ~sameOrigin(source, target)
            THEN errorResponse(NoResponse, "Forbidden", cs1)
        ELSE IF ~ex /\ ~csrfVerifyToken(secret, token, sessionID, now)
            THEN errorResponse(NoResponse, "Forbidden", cs3)
        ELSE nextResponse(w1, cs3)

\* The handler of the signed, session-bound variant: CSRF.Handler, called
\* when the clock reads now.
signedHandler(secret, expires, exemptFunc, exemptPaths, req, now) ==
    LET sessionID == req.session.id
        session == req.session.ok
        ex == exempt(exemptFunc, exemptPaths, req)
        source == sourceOrigin(req, requestURL(req))
        target == targetOrigin(req, requestURL(req))
        token == b64DecodeString(extractToken(req)).bytes
        cs1 == IF ~ex /\ req.scheme = "https" THEN {"origin"} ELSE {}
        cs2 == IF ~ex THEN cs1 \cup {"session"} ELSE cs1
        cs3 == IF ~ex THEN cs2 \cup {"token"} ELSE cs2
        w1 == IF session
                THEN [NoResponse EXCEPT !.csrfHeader =
                         b64Encode(csrfCreateToken(secret, sessionID, expires, now))]
                ELSE NoResponse
    IN  IF ~ex /\ req.scheme = "https" /\ ~sameOrigin(source, target)
            THEN errorResponse(NoResponse, "Forbidden", cs1)
        ELSE IF ~ex /\ ~session
            THEN errorResponse(NoResponse, "Forbidden", cs2)
        ELSE IF ~ex /\ ~csrfVerifyToken(secret, token, sessionID, now)
            THEN errorResponse(NoResponse, "Forbidden", cs3)
        ELSE nextResponse(w1, cs3)

\* The handler of the sessionless signed variant: CSRF.Handler.  noise is
\* what randomNoise gives for the new token.
sessionlessHandler(secret, exemptFunc, exemptPaths, req, noise) ==
    LET ex == exempt(exemptFunc, exemptPaths, req)
        source == sourceOrigin(req, requestURL(req))
        target == targetOrigin(req, requestURL(req))
        token == b64DecodeString(extractToken(req)).bytes
        cs1 == IF ~ex /\ req.scheme = "https" THEN {"origin"} ELSE {}
        cs2 == IF ~ex THEN cs1 \cup {"token"} ELSE cs1
    IN  IF ~ex /\ req.scheme = "https" /\ ~sameOrigin(source, target)
            THEN errorResponse(NoResponse, "Forbidden", cs1)
        ELSE IF ~ex /\ ~csrfVerifyTokenSessionless(secret, token)
            THEN errorResponse(NoResponse, "Forbidden", cs2)
        ELSE nextResponse([NoResponse EXCEPT !.csrfHeader =
                              csrfCreateTokenSessionless(secret, noise)],
                          cs2)

(***************************************************************************)
(* Construction.  A configuration is a record of the fields of the CSRF    *)
(* struct that the sanity checks read: cookieName, fieldName (FieldName,   *)
(* or FormKey in the signed variants), secure, domain, path, secret,       *)
(* expires and sessionFunc (FALSE for nil).  Names are sequences of        *)
(* characters.  A missing secret is the empty string, or the zero value    *)
(* of the masked variant's byte array.  The result of construction is the  *)
(* message of the panic, or "" when the handler is returned.               *)
(***************************************************************************)
\* strings.HasPrefix
HasPrefix(s, prefix) ==
    Len(s) >= Len(prefix) /\ SubSeq(s, 1, Len(prefix)) = prefix

HostPrefix == <<"_", "_", "H", "o", "s", "t", "-">>
SecurePrefix == <<"_", "_", "S", "e", "c", "u", "r", "e", "-">>

\* A faulty masked construction that does not look at Path.
maskedConstructNoPath(cfg) ==
    IF cfg.cookieName = <<>> THEN "csrf: no cookie name"
    ELSE IF cfg.fieldName = <<>> THEN "csrf: no field name"
    ELSE IF /\ HasPrefix(cfg.cookieName, HostPrefix)
            /\ (~cfg.secure \/ cfg.domain # <<>>)
        THEN "csrf: __Host- prefixed cookie has incorrect attributes"
    ELSE IF HasPrefix(cfg.cookieName, SecurePrefix) /\ ~cfg.secure
        THEN "csrf: __Secure- prefixed cookie does not have secure flag set"
    ELSE ""

\* The sanity checks of CSRF.Handler, masked variant.
maskedConstruct(cfg) ==
    IF cfg.cookieName = <<>> THEN "csrf: no cookie name"
    ELSE IF cfg.fieldName = <<>> THEN "csrf: no field name"
    ELSE IF /\ HasPrefix(cfg.cookieName, HostPrefix)
            /\ (~cfg.secure \/ cfg.domain # <<>> \/ cfg.path # <<"/">>)
        THEN "csrf: __Host- prefixed cookie has incorrect attributes"
    ELSE IF HasPrefix(cfg.cookieName, SecurePrefix) /\ ~cfg.secure
        THEN "csrf: __Secure- prefixed cookie does not have secure flag set"
    ELSE ""

\* A faulty signed construction that does not look at SessionFunc.
signedConstructNoSessionFunc(cfg) ==
    IF cfg.secret = <<>> THEN "csrf: no secret"
    ELSE IF cfg.expires = 0 THEN "csrf: no expires"
    ELSE ""

\* The sanity checks of CSRF.Handler, signed session-bound variant.
signedConstruct(cfg) ==
    IF cfg.secret = <<>> THEN "csrf: no secret"
    ELSE IF cfg.expires = 0 THEN "csrf: no expires"
    ELSE IF ~cfg.sessionFunc THEN "csrf: no session func"
    ELSE ""

\* The sanity check of CSRF.Handler, signed sessionless variant.
sessionlessConstruct(cfg) ==
    IF cfg.secret = <<>> THEN "csrf: no secret" ELSE ""

\* csrf.Handler(next) of the variant.
construct(variant, cfg) ==
    CASE variant = "masked" -> maskedConstruct(cfg)
      [] variant = "signed" -> signedConstruct(cfg)
      [] OTHER -> sessionlessConstruct(cfg)

NoConfig ==
    [cookieName |-> <<>>, fieldName |-> <<>>, secure |-> FALSE,
     domain |-> <<>>, path |-> <<>>, secret |-> <<>>, expires |-> 0,
     sessionFunc |-> FALSE]

(***************************************************************************)
(* The state of the codec harness: the buffers of TestCSRFMaskUnmask and   *)
(* TestCSRFVerify, and what a client may do to the two strings before they *)
(* are verified.                                                           *)
(***************************************************************************)
VARIABLES
    mSecret,        \* the secret the token is masked with
    mToken,         \* the raw token
    mBuf,           \* the 2 * csrfTokenLength buffer, nonce || token
    mReal,          \* base64 of the raw token (the cookie value)
    mSent,          \* base64 of the masked buffer (the sent token)
    mVerifySecret,  \* the secret csrfVerify is called with
    mTamper,        \* what was done to the genuine triple
    mVerdict,       \* the result of csrfVerify
    mPc             \* the harness's position

codecVars == <<mSecret, mToken, mBuf, mReal, mSent, mVerifySecret, mTamper,
               mVerdict, mPc>>

(***************************************************************************)
(* The state of the signed-token harness: one token is created, the clock  *)
(* advances, and the token is verified.                                    *)
(***************************************************************************)
VARIABLES
    tNow,           \* the clock
    tSession,       \* the session the token was created for
    tDuration,      \* the lifetime it was created with
    tCreated,       \* the clock reading when it was created
    tToken,         \* the token
    tVerifySession, \* the session it is verified against
    tVerdict,       \* the result of csrfVerifyToken
    tPc             \* the harness's position

tokenVars == <<tNow, tSession, tDuration, tCreated, tToken, tVerifySession,
               tVerdict, tPc>>

(***************************************************************************)
(* The state of a server that runs one of the CSRF handlers, and of a      *)
(* client that talks to it.                                                *)
(***************************************************************************)
VARIABLES
    hVariant,       \* which handler is installed
    hExemptFunc,    \* its ExemptFunc
    hExemptPaths,   \* its ExemptPaths
    hNow,           \* the server's clock
    hIssued,        \* the tokens the client holds, with what they came with
    hPc,            \* "idle", or "served" until the client has the response
    hReq,           \* the request being answered
    hResp           \* the response to it

handlerVars == <<hVariant, hExemptFunc, hExemptPaths, hNow, hIssued, hPc,
                 hReq, hResp>>

\* What a client that watches for rejections has seen: the status and body
\* of each rejected response, with the check that rejected the request.
VARIABLES hSeen

seenVars == <<hSeen>>

(***************************************************************************)
(* The state of a program that configures a CSRF middleware, constructs    *)
(* its handler and starts serving with it.                                 *)
(***************************************************************************)
VARIABLES
    kVariant,       \* which CSRF middleware is configured
    kConfig,        \* the fields of the CSRF struct
    kPanic,         \* the message construction panicked with, or ""
    kPc             \* "new", "ready", "serving" or "panicked"

configVars == <<kVariant, kConfig, kPanic, kPc>>

(***************************************************************************)
(* The state of a handler built with If(cond, then)(next), and of the      *)
(* requests it is serving.  The closure captures the variable next, which  *)
(* every request reads and a request whose condition holds assigns.        *)
(***************************************************************************)
VARIABLES
    iNext,          \* how many times `then` is wrapped around the captured next
    iReq            \* per goroutine: the request it serves and where it is

ifVars == <<iNext, iReq>>

(***************************************************************************)
(* The state of one call of the handler that Recoverer returns.            *)
(***************************************************************************)
VARIABLES
    rVersion,       \* which of the two Recoverer functions wraps the endpoint
    rPanic,         \* the value the endpoint panics with, or NoPanic
    rWrites,        \* the status the endpoint writes before that, or 0
    rResp,          \* the response so far
    rPropagated,    \* the value the call panicked with, or NoPanic
    rPc             \* "new", "called" (the endpoint ran) or "done"

recovererVars == <<rVersion, rPanic, rWrites, rResp, rPropagated, rPc>>

(***************************************************************************)
(* The state of a handler given to Methods and of one request to what      *)
(* Methods returned.                                                       *)
(***************************************************************************)
VARIABLES
    dHandler,       \* the handler: the Serve<M> methods and the ServeHTTP it has
    dWrapped,       \* whether Methods returned its dispatcher or the handler
    dMethod,        \* the method of the request
    dResp,          \* the response
    dPc             \* "new", "applied" (Methods returned) or "served"

methodsVars == <<dHandler, dWrapped, dMethod, dResp, dPc>>

(***************************************************************************)
(* The state of a CORS middleware and of one request to its handler.       *)
(***************************************************************************)
VARIABLES
    oCors,          \* the fields of the CORS struct
    oReq,           \* the request
    oResp,          \* the response
    oPc             \* "idle" or "served"

corsVars == <<oCors, oReq, oResp, oPc>>

(***************************************************************************)
(* The state of a program that builds a handler with Chain(...).Handler    *)
(* and sends it a request.                                                 *)
(***************************************************************************)
VARIABLES
    chMws,          \* the middlewares given to Chain
    chHandler,      \* what Handler(endpoint) returned
    chTrace,        \* the middlewares and handlers that ran, in order
    chPc            \* "new", "built" or "served"

chainVars == <<chMws, chHandler, chTrace, chPc>>

(***************************************************************************)
(* The state of a ResponseWriter wrapped by the tracer, of the goroutines  *)
(* that call it, and of what a recording tracer has seen.                  *)
(***************************************************************************)
VARIABLES
    wWroteHeader,   \* responseWriterTracer.wroteHeader
    wCall,          \* per goroutine: the call it is in and where it is
    wCalls,         \* how many calls were made
    wFirst,         \* the status the first call asks for, or 0 before it
    wOverlapped,    \* whether a call began while another was running
    wHeaderHooks,   \* how many times the WriteHeader hook ran
    wHeaderStatus,  \* the status given to the WriteHeader hook, or 0
    wEarlyWrites    \* how many Write hooks ran before the WriteHeader hook

tracerVars == <<wWroteHeader, wCall, wCalls, wFirst, wOverlapped, wHeaderHooks, wHeaderStatus, wEarlyWrites>>

(***************************************************************************)
(* The state of a handler that writes through a ResponseWriter hooked with *)
(* a Metrics tracer, of the Metrics and of the underlying response.        *)
(***************************************************************************)
VARIABLES
    xStatusCode,    \* Metrics.StatusCode
    xBytesWritten,  \* Metrics.BytesWritten
    xWroteHeader,   \* responseWriterTracer.wroteHeader
    xSent,          \* the underlying response: its status (0 until the header is written) and its body bytes
    xCalls,         \* how many calls the handler made
    xPc             \* "running" or "finished"

metricsVars == <<xStatusCode, xBytesWritten, xWroteHeader, xSent, xCalls, xPc>>


\* Concurrent requests through one CSRF handler:
\*   cVariant   the variant of the handler
\*   cConfig    the configuration the handler closure captured
\*   cRun       what each goroutine that serves a request holds
\*   cBuf       the rbuf array of each invocation of the masked handler
VARIABLES cVariant, cConfig, cRun, cBuf

concVars == <<cVariant, cConfig, cRun, cBuf>>


\* A ServeMux:
\*   sMiddlewares  mux.middlewares
\*   sRoutes       the handler mux.serveMux holds for each registered pattern,
\*                 with the number of Use calls made before it was registered
\*   sUseLog       the arguments of the Use calls made so far, in order
\*   sServed       the pattern of the route that served the last request
\*   sTrace        the layers that ran for the last request
\*   sPanic        the message of the panic that ended the set-up, if any
VARIABLES sMiddlewares, sRoutes, sUseLog, sServed, sTrace, sPanic

muxVars == <<sMiddlewares, sRoutes, sUseLog, sServed, sTrace, sPanic>>

vars == <<codecVars, tokenVars, handlerVars, seenVars, configVars, ifVars, recovererVars, methodsVars, corsVars, chainVars, tracerVars, metricsVars, concVars, muxVars>>

notMuxVars == <<codecVars, tokenVars, handlerVars, seenVars, configVars, ifVars, recovererVars, methodsVars, corsVars, chainVars, tracerVars, metricsVars, concVars>>

notConcVars == <<codecVars, tokenVars, handlerVars, seenVars, configVars, ifVars, recovererVars, methodsVars, corsVars, chainVars, tracerVars, metricsVars, muxVars>>

notMetricsVars == <<codecVars, tokenVars, handlerVars, seenVars, configVars, ifVars, recovererVars, methodsVars, corsVars, chainVars, tracerVars, concVars, muxVars>>

notTracerVars == <<codecVars, tokenVars, handlerVars, seenVars, configVars, ifVars, recovererVars, methodsVars, corsVars, chainVars, metricsVars, concVars, muxVars>>

notChainVars == <<codecVars, tokenVars, handlerVars, seenVars, configVars, ifVars, recovererVars, methodsVars, corsVars, tracerVars, metricsVars, concVars, muxVars>>

notCorsVars == <<codecVars, tokenVars, handlerVars, seenVars, configVars, ifVars, recovererVars, methodsVars, chainVars, tracerVars, metricsVars, concVars, muxVars>>

notMethodsVars == <<codecVars, tokenVars, handlerVars, seenVars, configVars, ifVars, recovererVars, corsVars, chainVars, tracerVars, metricsVars, concVars, muxVars>>

notRecovererVars == <<codecVars, tokenVars, handlerVars, seenVars, configVars, ifVars, methodsVars, corsVars, chainVars, tracerVars, metricsVars, concVars, muxVars>>

notIfVars == <<codecVars, tokenVars, handlerVars, seenVars, configVars, recovererVars, methodsVars, corsVars, chainVars, tracerVars, metricsVars, concVars, muxVars>>

notCodecVars == <<tokenVars, handlerVars, seenVars, configVars, ifVars, recovererVars, methodsVars, corsVars, chainVars, tracerVars, metricsVars, concVars, muxVars>>
notTokenVars == <<codecVars, handlerVars, seenVars, configVars, ifVars, recovererVars, methodsVars, corsVars, chainVars, tracerVars, metricsVars, concVars, muxVars>>
notHandlerVars == <<codecVars, tokenVars, seenVars, configVars, ifVars, recovererVars, methodsVars, corsVars, chainVars, tracerVars, metricsVars, concVars, muxVars>>
notServerVars == <<codecVars, tokenVars, configVars, ifVars, recovererVars, methodsVars, corsVars, chainVars, tracerVars, metricsVars, concVars, muxVars>>
notConfigVars == <<codecVars, tokenVars, handlerVars, seenVars, ifVars, recovererVars, methodsVars, corsVars, chainVars, tracerVars, metricsVars, concVars, muxVars>>

\* bs with bit k of byte i flipped
flipBit(bs, i, k) == [bs EXCEPT ![i] = xorByte(bs[i], 2^k)]

\* What a client can send in place of the base64 string str of bytes bs.
Malformed(str, bs) ==
    {SubSeq(str, 1, k) : k \in 0..(Len(str) - 1)}
    \cup {b64Encode(SubSeq(bs, 1, k)) : k \in 0..(Len(bs) - 1)}
    \cup {b64Encode(bs \o Zeros(k)) : k \in 1..MaxExtra}
    \cup {str \o <<badChar>>, <<badChar>> \o str, str \o <<nlChar>>,
          <<nlChar>> \o str, str \o <<0, 0, 0, 0>>}

\* The number of bytes a string decodes to, given room for all of them.
decodedLength(str) == Len(b64DecodeString(str).bytes)

CodecIdle ==
    /\ mSecret = NoValue /\ mToken = NoValue /\ mBuf = NoValue
    /\ mReal = NoValue /\ mSent = NoValue /\ mVerifySecret = NoValue
    /\ mTamper = "none" /\ mVerdict = "none" /\ mPc = "idle"

CodecInit ==
    /\ mSecret \in BytesOf(ByteVals, csrfTokenLength)
    /\ mToken \in BytesOf(ByteVals, csrfTokenLength)
    /\ mBuf = Zeros(csrfTokenLength) \o mToken
    /\ mReal = NoValue /\ mSent = NoValue
    /\ mVerifySecret = mSecret
    /\ mTamper = "none" /\ mVerdict = "none" /\ mPc = "start"

\* csrfMask(secret, buf)
MaskStep ==
    /\ mPc = "start"
    /\ \E noise \in BytesOf(ByteVals, csrfTokenLength) :
           mBuf' = csrfMask(mSecret, mBuf, noise)
    /\ mPc' = "masked"
    /\ UNCHANGED <<mSecret, mToken, mReal, mSent, mVerifySecret, mTamper, mVerdict, notCodecVars>>

\* csrfUnmask(secret, buf)
UnmaskStep ==
    /\ mPc = "masked"
    /\ mBuf' = csrfUnmask(mSecret, mBuf)
    /\ mPc' = "unmasked"
    /\ UNCHANGED <<mSecret, mToken, mReal, mSent, mVerifySecret, mTamper, mVerdict, notCodecVars>>

\* bt := b64.EncodeToString(token); bs := b64.EncodeToString(sbuf)
EncodeStep ==
    /\ mPc = "masked"
    /\ mReal' = b64Encode(mToken)
    /\ mSent' = b64Encode(mBuf)
    /\ mPc' = "encoded"
    /\ UNCHANGED <<mSecret, mToken, mBuf, mVerifySecret, mTamper, mVerdict, notCodecVars>>

\* One bit of the decoded sent token is changed.
TamperBit ==
    /\ mPc = "encoded"
    /\ \E i \in 1..(2 * csrfTokenLength), k \in 0..7 :
           mSent' = b64Encode(flipBit(mBuf, i, k))
    /\ mTamper' = "bit"
    /\ mPc' = "tampered"
    /\ UNCHANGED <<mSecret, mToken, mBuf, mReal, mVerifySecret, mVerdict, notCodecVars>>

\* The pair is verified with another secret than it was masked with.
TamperSecret ==
    /\ mPc = "encoded"
    /\ \E other \in BytesOf(ByteVals, csrfTokenLength) \ {mSecret} :
           mVerifySecret' = other
    /\ mTamper' = "secret"
    /\ mPc' = "tampered"
    /\ UNCHANGED <<mSecret, mToken, mBuf, mReal, mSent, mVerdict, notCodecVars>>

\* The real token is replaced by a malformed string.
TamperReal ==
    /\ mPc = "encoded"
    /\ mReal' \in Malformed(mReal, mToken)
    /\ mTamper' = "real"
    /\ mPc' = "tampered"
    /\ UNCHANGED <<mSecret, mToken, mBuf, mSent, mVerifySecret, mVerdict, notCodecVars>>

\* The sent token is replaced by a malformed string.
TamperSent ==
    /\ mPc = "encoded"
    /\ mSent' \in Malformed(mSent, mBuf)
    /\ mTamper' = "sent"
    /\ mPc' = "tampered"
    /\ UNCHANGED <<mSecret, mToken, mBuf, mReal, mVerifySecret, mVerdict, notCodecVars>>

\* csrfVerify(secret, bt, bs)
VerifyStep ==
    /\ mPc \in {"encoded", "tampered"}
    /\ mVerdict' = csrfVerify(mVerifySecret, mReal, mSent)
    /\ mPc' = "verified"
    /\ UNCHANGED <<mSecret, mToken, mBuf, mReal, mSent, mVerifySecret, mTamper, notCodecVars>>

TokenIdle ==
    /\ tNow = StartTime /\ tSession = NoValue /\ tDuration = 0 /\ tCreated = 0
    /\ tToken = NoValue /\ tVerifySession = NoValue /\ tVerdict = "none"
    /\ tPc = "idle"

HandlerIdle ==
    /\ hVariant = "none" /\ hExemptFunc = NilFunc /\ hExemptPaths = <<>>
    /\ hNow = StartTime /\ hIssued = {} /\ hPc = "off"
    /\ hReq = NoRequest /\ hResp = NoResponse
    /\ hSeen = {}

ConfigIdle ==
    /\ kVariant = "none" /\ kConfig = NoConfig /\ kPanic = "" /\ kPc = "off"


Goroutines == 1 .. MaxConcurrent

\* A goroutine that serves no request.
NoServe == [pc |-> "none", cond |-> FALSE, loaded |-> 0, applied |-> 0]

IfIdle == iNext = 0 /\ iReq = [g \in {} |-> NoServe]


\* recover() returns nil when the goroutine is not panicking.
NoPanic == [kind |-> "nil", detail |-> "", status |-> 0]

\* A response: the status written first (0 when none was written) and the
\* status and the detail of the error given to the error handler (0 and ""
\* when Error was not called).
NoRecovererResponse == [status |-> 0, errStatus |-> 0, errDetail |-> ""]

RecovererIdle ==
    /\ rVersion = "none" /\ rPanic = NoPanic /\ rWrites = 0
    /\ rResp = NoRecovererResponse /\ rPropagated = NoPanic /\ rPc = "off"


\* The response of a request to a handler: the method that served it
\* (Serve<M> is named by M, ServeHTTP by "ServeHTTP"), the status and the
\* Allow header as the list of methods that strings.Join joins.
NoMethodsResponse == [served |-> "", status |-> 0, allow |-> <<>>]

MethodsIdle ==
    /\ dHandler = [implements |-> {}, serveHTTP |-> ""] /\ dWrapped = FALSE
    /\ dMethod = "" /\ dResp = NoMethodsResponse /\ dPc = "off"


\* A response of the CORS handler: the headers set (a function from the
\* names that are set to their values), the values added to Vary, the
\* status written and whether the next handler was called.
NoCorsResponse ==
    [header |-> [n \in {} |-> <<>>], vary |-> <<>>, status |-> 0, invoked |-> FALSE]

NoCorsRequest == [method |-> "", origin |-> <<>>, acrMethod |-> <<>>, acrHeaders |-> <<>>]

NoCors ==
    [allowCredentials |-> FALSE, allowHeaders |-> <<>>, allowMethods |-> <<>>,
     allowOrigins |-> <<>>, allowOriginFunc |-> "nil", exposeHeaders |-> <<>>,
     maxAge |-> 0, optionsPassthrough |-> FALSE]

CorsIdle ==
    /\ oCors = NoCors /\ oReq = NoCorsRequest /\ oResp = NoCorsResponse
    /\ oPc = "off"


ChainIdle ==
    /\ chMws = <<>> /\ chHandler = <<>> /\ chTrace = <<>> /\ chPc = "off"


\* A goroutine that is in no call of the ResponseWriter.
NoCall == [pc |-> "none", op |-> "", status |-> 0]

TracerIdle ==
    /\ wWroteHeader = 0 /\ wCall = [g \in {} |-> NoCall] /\ wCalls = 0
    /\ wFirst = 0 /\ wOverlapped = FALSE /\ wHeaderHooks = 0
    /\ wHeaderStatus = 0 /\ wEarlyWrites = 0


NothingSent == [status |-> 0, bytes |-> 0]

MetricsIdle ==
    /\ xStatusCode = 0 /\ xBytesWritten = 0 /\ xWroteHeader = 0
    /\ xSent = NothingSent /\ xCalls = 0 /\ xPc = "off"


ConcIdle ==
    /\ cVariant = "none" /\ cConfig = NoValue /\ cRun = NoValue /\ cBuf = NoValue


MuxIdle ==
    /\ sMiddlewares = NoValue /\ sRoutes = NoValue /\ sUseLog = NoValue
    /\ sServed = NoValue /\ sTrace = NoValue /\ sPanic = "off"

CodecNext ==
    \/ MaskStep
    \/ UnmaskStep
    \/ EncodeStep
    \/ TamperBit
    \/ TamperSecret
    \/ TamperReal
    \/ TamperSent
    \/ VerifyStep

InitCodec == CodecInit /\ TokenIdle /\ HandlerIdle /\ ConfigIdle /\ IfIdle /\ RecovererIdle /\ MethodsIdle /\ CorsIdle /\ ChainIdle /\ TracerIdle /\ MetricsIdle /\ ConcIdle /\ MuxIdle

SpecCodec == InitCodec /\ [][CodecNext]_vars

(***************************************************************************)
(* The signed-token harness.                                               *)
(***************************************************************************)
Durations == (-MaxDuration)..MaxDuration

TokenInit ==
    /\ tNow = StartTime
    /\ tSession = NoValue /\ tDuration = 0 /\ tCreated = 0
    /\ tToken = NoValue /\ tVerifySession = NoValue /\ tVerdict = "none"
    /\ tPc = "start"

\* token := csrfCreateToken(secret, sessionID, d)
CreateStep ==
    /\ tPc = "start"
    /\ \E sid \in SessionIDs, d \in Durations :
           /\ tSession' = sid
           /\ tDuration' = d
           /\ tToken' = csrfCreateToken(SignSecret, sid, d, tNow)
    /\ tCreated' = tNow
    /\ tPc' = "created"
    /\ UNCHANGED <<tNow, tVerifySession, tVerdict, notTokenVars>>

\* Time passes.
TickStep ==
    /\ tPc \in {"start", "created"}
    /\ tNow < StartTime + MaxElapsed
    /\ tNow' = tNow + 1
    /\ UNCHANGED <<tSession, tDuration, tCreated, tToken, tVerifySession,
                   tVerdict, tPc, notTokenVars>>

\* csrfVerifyToken(secret, token, sessionID)
VerifyTokenStep ==
    /\ tPc = "created"
    /\ \E sid \in SessionIDs :
           /\ tVerifySession' = sid
           /\ tVerdict' = IF csrfVerifyToken(SignSecret, tToken, sid, tNow)
                            THEN "true" ELSE "false"
    /\ tPc' = "verified"
    /\ UNCHANGED <<tNow, tSession, tDuration, tCreated, tToken, notTokenVars>>

TokenNext ==
    \/ CreateStep
    \/ TickStep
    \/ VerifyTokenStep

InitToken == TokenInit /\ CodecIdle /\ HandlerIdle /\ ConfigIdle /\ IfIdle /\ RecovererIdle /\ MethodsIdle /\ CorsIdle /\ ChainIdle /\ TracerIdle /\ MetricsIdle /\ ConcIdle /\ MuxIdle

SpecToken == InitToken /\ [][TokenNext]_vars

(***************************************************************************)
(* The server and its client.  The server answers one request at a time    *)
(* (Serve is the whole handler); the client takes the response and may     *)
(* keep the token that came with it, with the cookie or session it was     *)
(* issued for.                                                             *)
(***************************************************************************)
Variants == {"masked", "signed", "sessionless"}

\* What randomNoise can write: one string per byte value.
NoiseVals == {[i \in 1..csrfTokenLength |-> b] : b \in ByteVals}

\* csrf.Expires of the signed variant.
Expires == MaxDuration

Serve(req) ==
    /\ hPc = "idle"
    /\ hReq' = req
    /\ \/ /\ hVariant = "masked"
          /\ \E cookieNoise \in NoiseVals, nonceNoise \in NoiseVals :
                 hResp' = maskedHandler(MaskSecret, hExemptFunc, hExemptPaths,
                                        req, cookieNoise, nonceNoise)
       \/ /\ hVariant = "signed"
          /\ hResp' = signedHandler(SignSecret, Expires, hExemptFunc,
                                    hExemptPaths, req, hNow)
       \/ /\ hVariant = "sessionless"
          /\ \E noise \in NoiseVals :
                 hResp' = sessionlessHandler(SignSecret, hExemptFunc,
                                             hExemptPaths, req, noise)
    /\ hPc' = "served"
    /\ UNCHANGED <<hVariant, hExemptFunc, hExemptPaths, hNow, hIssued,
                   notHandlerVars>>

\* The token of the response, with the cookie in effect, the session and
\* the time of issue (of tokens that expire).
issuedBy(req, resp, variant, now) ==
    [token |-> resp.csrfHeader,
     cookie |-> IF resp.setCookie # <<>> THEN resp.setCookie ELSE req.cookie,
     session |-> req.session,
     at |-> IF variant = "signed" THEN now ELSE 0]

\* The client takes the response.
Receive ==
    /\ hPc = "served"
    /\ \E keep \in BOOLEAN :
           hIssued' = IF /\ keep
                         /\ hResp.csrfHeader # <<>>
                         /\ Cardinality(hIssued) < MaxIssued
                      THEN hIssued \cup {issuedBy(hReq, hResp, hVariant, hNow)}
                      ELSE hIssued
    /\ hPc' = "idle"
    /\ hReq' = NoRequest
    /\ hResp' = NoResponse
    /\ UNCHANGED <<hVariant, hExemptFunc, hExemptPaths, hNow, notHandlerVars>>

\* Time passes between two requests.  Only the session-bound signed
\* handler reads the clock (time.Now in csrfCreateToken and
\* csrfVerifyToken), so only there does the model let it advance.
Tick ==
    /\ hPc = "idle"
    /\ hVariant = "signed"
    /\ hNow < StartTime + MaxElapsed
    /\ hNow' = hNow + 1
    /\ UNCHANGED <<hVariant, hExemptFunc, hExemptPaths, hIssued, hPc, hReq,
                   hResp, notHandlerVars>>

\* What the client can put into a request.
ClientTokens == {i.token : i \in hIssued}
ClientCookies == {i.cookie : i \in hIssued}
ClientSessions == {NoSession, Session(<<65>>), Session(<<66>>)}

\* A token with the lowest bit of its last byte flipped.
flipToken(t) ==
    LET bs == b64DecodeString(t).bytes IN b64Encode(flipBit(bs, Len(bs), 0))

ShortToken == <<0, 0, 0, 0>>
LongToken == b64Encode(Zeros(2 * csrfTokenLength + MaxExtra))
LongCookie == b64Encode(Zeros(csrfTokenLength + MaxExtra))

ForgedTokens == {flipToken(t) : t \in ClientTokens} \cup {ShortToken, LongToken}

CookiesOf(variant) ==
    IF variant = "masked" THEN ClientCookies \cup {<<>>, LongCookie} ELSE {<<>>}
SessionsOf(variant) ==
    IF variant = "signed" THEN ClientSessions ELSE {NoSession}

URLOf(scheme, host) == <<scheme, "://", host>>
PathA == <<"/", "a">>
PathB == <<"/", "b">>
PathDeep == <<"/", "a", "/", "b">>

\* The requests of a client that follows the protocol or forges tokens.
ProtocolRequests ==
    {Request(m, sch, PathA, <<>>, ref, <<>>, h, f, <<>>, c, ses) :
        m \in {"GET", "POST"}, sch \in {"http", "https"},
        ref \in {<<>>, URLOf("https", "example.com")},
        h \in ClientTokens \cup ForgedTokens \cup {<<>>},
        f \in ClientTokens \cup {<<>>},
        c \in CookiesOf(hVariant), ses \in SessionsOf(hVariant)}

ServeProtocol == \E req \in ProtocolRequests : Serve(req)

HandlerInit ==
    /\ hVariant \in Variants
    /\ hExemptFunc = NilFunc
    /\ hExemptPaths = <<>>
    /\ hNow = StartTime
    /\ hIssued = {}
    /\ hPc = "idle"
    /\ hReq = NoRequest
    /\ hResp = NoResponse
    /\ hSeen = {}

Next ==
    \/ ServeProtocol
    \/ Receive
    \/ Tick

Init == HandlerInit /\ CodecIdle /\ TokenIdle /\ ConfigIdle /\ IfIdle /\ RecovererIdle /\ MethodsIdle /\ CorsIdle /\ ChainIdle /\ TracerIdle /\ MetricsIdle /\ ConcIdle /\ MuxIdle

Spec == Init /\ [][Next]_vars

(***************************************************************************)
(* The same server, with a client that varies the origin headers of its    *)
(* requests.                                                               *)
(***************************************************************************)
OriginValues ==
    {<<>>, URLOf("https", "example.com"), URLOf("https", "evil.com"),
     URLOf("http", "example.com"), <<"://", "example.com">>}

OriginRequests ==
    {Request(m, sch, PathA, org, ref, xfh, h, <<>>, <<>>, c, ses) :
        m \in {"GET", "POST"}, sch \in {"http", "https"},
        org \in OriginValues, ref \in OriginValues,
        xfh \in {<<>>, <<"example.com">>},
        h \in ClientTokens \cup {<<>>},
        c \in CookiesOf(hVariant) \ {LongCookie},
        ses \in SessionsOf(hVariant)}

ServeOrigin == \E req \in OriginRequests : Serve(req)

NextOrigin ==
    \/ ServeOrigin
    \/ Receive

InitOrigin == HandlerInit /\ CodecIdle /\ TokenIdle /\ ConfigIdle /\ IfIdle /\ RecovererIdle /\ MethodsIdle /\ CorsIdle /\ ChainIdle /\ TracerIdle /\ MetricsIdle /\ ConcIdle /\ MuxIdle

SpecOrigin == InitOrigin /\ [][NextOrigin]_vars

(***************************************************************************)
(* The same server under each exemption configuration, with a client that  *)
(* varies the method and the path of its requests.                         *)
(***************************************************************************)
Methods == {"GET", "HEAD", "OPTIONS", "TRACE", "POST", "DELETE"}

ExemptFuncs == {NilFunc, PathFunc({}), PathFunc({PathB})}
ExemptPathLists == {<<>>, <<PathA>>, <<PathDeep, <<"/", "*">>>>}

ExemptRequests ==
    {Request(m, sch, p, <<>>, <<>>, <<>>, h, <<>>, <<>>, c, ses) :
        m \in Methods, sch \in {"http", "https"},
        p \in {PathA, PathB, PathDeep},
        h \in ClientTokens \cup {<<>>},
        c \in CookiesOf(hVariant) \ {LongCookie},
        ses \in SessionsOf(hVariant) \ {Session(<<66>>)}}

ServeExempt == \E req \in ExemptRequests : Serve(req)

ExemptInit ==
    /\ hVariant \in Variants
    /\ hExemptFunc \in ExemptFuncs
    /\ hExemptPaths \in ExemptPathLists
    /\ hNow = StartTime
    /\ hIssued = {}
    /\ hPc = "idle"
    /\ hReq = NoRequest
    /\ hResp = NoResponse
    /\ hSeen = {}

NextExempt ==
    \/ ServeExempt
    \/ Receive

InitExempt == ExemptInit /\ CodecIdle /\ TokenIdle /\ ConfigIdle /\ IfIdle /\ RecovererIdle /\ MethodsIdle /\ CorsIdle /\ ChainIdle /\ TracerIdle /\ MetricsIdle /\ ConcIdle /\ MuxIdle

SpecExempt == InitExempt /\ [][NextExempt]_vars

(***************************************************************************)
(* The same server, with a client that collects the rejections it gets.    *)
(***************************************************************************)
\* The check that rejected the request: the last one the handler ran.
failedCheck(resp) ==
    IF "token" \in resp.checks THEN "token"
    ELSE IF "session" \in resp.checks THEN "session"
    ELSE "origin"

\* The client takes a rejection and notes what it looks like.
Observe ==
    /\ hPc = "served"
    /\ hResp.status = 403
    /\ hSeen' = hSeen \cup {[check |-> failedCheck(hResp),
                              status |-> hResp.status,
                              body |-> hResp.body]}
    /\ hPc' = "idle"
    /\ hReq' = NoRequest
    /\ hResp' = NoResponse
    /\ UNCHANGED <<hVariant, hExemptFunc, hExemptPaths, hNow, hIssued,
                   notServerVars>>

FailureRequests ==
    {Request("POST", sch, PathA, <<>>, ref, <<>>, h, <<>>, <<>>, c, ses) :
        sch \in {"http", "https"},
        ref \in {<<>>, URLOf("https", "example.com"),
                 URLOf("https", "evil.com")},
        h \in ClientTokens \cup {<<>>, ShortToken},
        c \in CookiesOf(hVariant) \ {LongCookie},
        ses \in SessionsOf(hVariant)}

ServeFailure == \E req \in FailureRequests : Serve(req)

NextFailure ==
    \/ ServeFailure
    \/ Receive
    \/ Observe

InitFailure == HandlerInit /\ CodecIdle /\ TokenIdle /\ ConfigIdle /\ IfIdle /\ RecovererIdle /\ MethodsIdle /\ CorsIdle /\ ChainIdle /\ TracerIdle /\ MetricsIdle /\ ConcIdle /\ MuxIdle

SpecFailure == InitFailure /\ [][NextFailure]_vars

(***************************************************************************)
(* The claims about the codecs.                                            *)
(***************************************************************************)

\* C1: masking a nonce || token buffer with csrfMask and unmasking it with
\* csrfUnmask under the same secret leaves the token half equal to the
\* original token, whatever nonce csrfMask drew.
C1_MaskUnmaskRoundTrip ==
    mPc = "unmasked" => tokenOf(mBuf) = mToken

\* A buffer that was masked with a nonce other than the secret and unmasked.
C1_Witness ==
    /\ mPc = "unmasked"
    /\ nonceOf(mBuf) # mSecret
    /\ nonceOf(mBuf) # mToken

\* C2: csrfVerify returns true for real = base64(token) and
\* sent = base64(nonce || (token XOR nonce XOR secret)).
C2_VerifyAcceptsGenuine ==
    (mPc = "verified" /\ mTamper = "none") => mVerdict = "true"

\* A genuine pair was verified.
C2_Witness ==
    /\ mPc = "verified"
    /\ mTamper = "none"
    /\ mSent = b64Encode(mBuf)
    /\ mVerifySecret = mSecret

\* C3: csrfVerify returns false when one bit of the decoded sent token was
\* changed or when it is called with another secret than the token was
\* masked with, and it returns true only when the unmasked sent token
\* equals the real token exactly.
C3_VerifyRejectsTampered ==
    mPc = "verified" =>
        /\ mTamper \in {"bit", "secret"} => mVerdict = "false"
        /\ mVerdict = "true" =>
               /\ decodedLength(mSent) = 2 * csrfTokenLength
               /\ \A i \in 1..csrfTokenLength :
                      b64DecodeString(mReal).bytes[i] =
                          xorByte(xorByte(b64DecodeString(mSent).bytes[csrfTokenLength + i],
                                          mVerifySecret[i]),
                                  b64DecodeString(mSent).bytes[i])

\* A pair with one bit of the last byte of the masked half changed was
\* verified.
C3_Witness ==
    /\ mPc = "verified"
    /\ mTamper = "bit"
    /\ mVerdict = "false"
    /\ \E k \in 0..7 : mSent = b64Encode(flipBit(mBuf, 2 * csrfTokenLength, k))

\* C4: csrfVerify returns false, and does not panic, whenever the decoded
\* length of the real token is not csrfTokenLength or the decoded length of
\* the sent token is not 2 * csrfTokenLength.
C4_VerifyRejectsMalformedLengths ==
    (/\ mPc = "verified"
     /\ \/ decodedLength(mReal) # csrfTokenLength
        \/ decodedLength(mSent) # 2 * csrfTokenLength)
        => mVerdict = "false"

\* C5: a token created at time t0 with lifetime d is accepted at time t only
\* if t < t0 + d (so a token with a negative lifetime is rejected), and a
\* token with a positive lifetime is accepted at the time it was created.
C5_SignedTokenExpiry ==
    tPc = "verified" =>
        /\ tVerdict = "true" => tNow < tCreated + tDuration
        /\ (tVerifySession = tSession /\ tDuration > 0 /\ tNow = tCreated)
               => tVerdict = "true"

\* C6: a token created for one session is rejected when it is verified
\* against another session, at any time.
C6_SessionBinding ==
    (tPc = "verified" /\ tVerifySession # tSession) => tVerdict = "false"

\* An unexpired token was verified against another session than its own.
C6_Witness ==
    /\ tPc = "verified"
    /\ tVerifySession # tSession
    /\ tVerdict = "false"
    /\ tNow < tCreated + tDuration

(***************************************************************************)
(* The claims about the handlers.                                          *)
(***************************************************************************)
\* The request was not exempt.
NonExempt == ~exempt(hExemptFunc, hExemptPaths, hReq)

\* The request presents the token tok: in the X-CSRF-Token header, or in
\* the form field of a request without that header.
Presents(tok) ==
    \/ hReq.header = tok
    \/ hReq.header = <<>> /\ hReq.form = tok

\* The request comes with what the issued token i was issued for: the same
\* cookie, or the same session before the token expires.
SameBinding(i) ==
    CASE hVariant = "masked" -> hReq.cookie = i.cookie
      [] hVariant = "signed" ->
             hReq.session = i.session /\ hNow < i.at + Expires
      [] OTHER -> TRUE

\* The request's URL is not https, or its origin headers pass the
\* handler's origin check.
PassesOriginCheck ==
    \/ hReq.scheme # "https"
    \/ /\ hVariant = "masked"
       /\ hReq.referer # <<>>
       /\ sameOrigin(urlParse(hReq.referer), requestURL(hReq))
    \/ /\ hVariant # "masked"
       /\ sameOrigin(sourceOrigin(hReq, requestURL(hReq)),
                     targetOrigin(hReq, requestURL(hReq)))

Accepted == hResp.status = 200 /\ hResp.invoked
Rejected == hResp.status = 403 /\ ~hResp.invoked

\* C7 as stated: a non-exempt request that presents a token the client was
\* issued earlier, with the same cookie (masked) or the same session before
\* expiry (signed), is accepted: the downstream handler is invoked and the
\* response is 200.
C7_IssuedTokensAcceptedLater ==
    hPc = "served" =>
        \A i \in hIssued :
            (NonExempt /\ Presents(i.token) /\ SameBinding(i)) => Accepted

\* C7, amended: such a request is accepted provided that, when its URL
\* scheme is https, it also passes the origin check.
C7_IssuedTokensAcceptedIfOriginPasses ==
    hPc = "served" =>
        \A i \in hIssued :
            (NonExempt /\ Presents(i.token) /\ SameBinding(i)
                /\ PassesOriginCheck) => Accepted

\* A token issued for a session at an earlier time is presented in the form
\* field of an https POST of that session, before it expires, and accepted,
\* and another token is issued with the response.
C7_Witness ==
    /\ hPc = "served"
    /\ hVariant = "signed"
    /\ hReq.method = "POST"
    /\ hReq.scheme = "https"
    /\ hReq.header = <<>>
    /\ \E i \in hIssued :
           /\ hReq.form = i.token
           /\ hReq.session = i.session
           /\ i.at < hNow
           /\ hNow < i.at + Expires
           /\ hResp.csrfHeader # i.token
    /\ Accepted

\* The token the handler verifies the sent token against: the cookie of
\* the request, or the one the response sets in its place.
CookieInEffect ==
    IF hResp.setCookie # <<>> THEN hResp.setCookie ELSE hReq.cookie

\* The request carries no token, or one that fails verification.
FailsVerification ==
    \/ hReq.header = <<>> /\ hReq.form = <<>> /\ hReq.multipart = <<>>
    \/ /\ hVariant = "masked"
       /\ csrfVerify(MaskSecret, CookieInEffect, extractToken(hReq)) # "true"
    \/ /\ hVariant = "signed"
       /\ ~csrfVerifyToken(SignSecret,
                           b64DecodeString(extractToken(hReq)).bytes,
                           hReq.session.id, hNow)
    \/ /\ hVariant = "sessionless"
       /\ ~csrfVerifyTokenSessionless(SignSecret,
                                      b64DecodeString(extractToken(hReq)).bytes)

\* C8: a non-exempt request that carries no token, or a token that fails
\* verification, is answered with 403 and the downstream handler is not
\* invoked, in every variant.
C8_RejectionIsTerminal ==
    (hPc = "served" /\ NonExempt /\ FailsVerification) => Rejected

\* The origin the request declares: the Origin header, else the Referer.
DeclaredOrigin ==
    IF hReq.origin # <<>> THEN hReq.origin ELSE hReq.referer

\* The declared origin cannot be parsed, or differs from the target origin
\* in scheme or host.
OriginMismatch ==
    LET declared == urlParse(DeclaredOrigin)
        target == targetOrigin(hReq, requestURL(hReq))
    IN  \/ ~declared.ok
        \/ ~target.ok
        \/ declared.scheme # target.scheme
        \/ declared.host # target.host

SafeMethod == hReq.method \in {"GET", "HEAD", "OPTIONS", "TRACE"}
PathMatches == stringsMatch(hExemptPaths, hReq.path)
PredicateHolds == hExemptFunc.set /\ hReq.path \in hExemptFunc.paths

\* The handler ran neither the origin check nor a token verification, and
\* passed the request on unless it panicked before that.
SkipsVerification ==
    /\ hResp.checks = {}
    /\ ~hResp.panicked => Accepted

\* The handler verified the request: it ran a check, or panicked before it
\* came to one.
Verifies == hResp.checks # {} \/ (hResp.panicked /\ ~hResp.invoked)

\* C10 as stated: a request skips origin and token verification whenever
\* its method is safe, or its path matches a configured glob pattern, or
\* the configured predicate returns true; a request satisfying none of the
\* three is never exempt.
C10_ExemptionRule ==
    hPc = "served" =>
        /\ (SafeMethod \/ PathMatches \/ PredicateHolds) => SkipsVerification
        /\ ~(SafeMethod \/ PathMatches \/ PredicateHolds) => Verifies

\* C10, amended: the glob patterns count only when no predicate is
\* configured; a configured predicate replaces them.
C10_ExemptionRulePredicateFirst ==
    hPc = "served" =>
        LET ex == \/ SafeMethod
                  \/ PredicateHolds
                  \/ ~hExemptFunc.set /\ PathMatches
        IN  /\ ex => SkipsVerification
            /\ ~ex => Verifies

\* A POST without a token to a path that matches a glob pattern, with no
\* predicate configured, is passed on unverified.
C10_Witness ==
    /\ hPc = "served"
    /\ hReq.method = "POST"
    /\ ~hExemptFunc.set
    /\ hExemptPaths = <<PathDeep, <<"/", "*">>>>
    /\ hReq.path = PathB
    /\ hReq.header = <<>>
    /\ hReq.scheme = "https"
    /\ hReq.referer = <<>>
    /\ hResp.checks = {}
    /\ Accepted


C12_CookieLifecycle ==
    (hPc = "served" /\ hVariant = "masked") =>
        /\ hResp.setCookie # <<>> <=>
               decodedLength(hReq.cookie) # csrfTokenLength
        /\ (decodedLength(hReq.cookie) = csrfTokenLength /\ hResp.invoked) =>
               csrfVerify(MaskSecret, hReq.cookie, hResp.csrfHeader) = "true"


CookieNames ==
    {<<>>, <<"c">>, HostPrefix, HostPrefix \o <<"c">>, SecurePrefix \o <<"c">>,
     <<"_", "_", "H", "o", "s", "t">>, <<"c">> \o HostPrefix}

FieldNames == {<<>>, <<"t">>}

Domains == {<<>>, <<"e", ".", "c">>}

Paths == {<<>>, <<"/">>, <<"/", "a">>}

Secrets == {<<>>, SignSecret}

ExpiresValues == {0, Expires, 0 - Expires}

Configs ==
    [cookieName : CookieNames, fieldName : FieldNames, secure : BOOLEAN,
     domain : Domains, path : Paths, secret : Secrets,
     expires : ExpiresValues, sessionFunc : BOOLEAN]

ConfigInit ==
    /\ kVariant \in Variants
    /\ kConfig \in Configs
    /\ kPanic = ""
    /\ kPc = "new"

Construct ==
    /\ kPc = "new"
    /\ kPanic' = construct(kVariant, kConfig)
    /\ kPc' = IF kPanic' = "" THEN "ready" ELSE "panicked"
    /\ UNCHANGED <<kVariant, kConfig, notConfigVars>>

\* http.ListenAndServe with the constructed handler.
Start ==
    /\ kPc = "ready"
    /\ kPc' = "serving"
    /\ UNCHANGED <<kVariant, kConfig, kPanic, notConfigVars>>

NextConfig == Construct \/ Start

InitConfig == ConfigInit /\ CodecIdle /\ TokenIdle /\ HandlerIdle /\ IfIdle /\ RecovererIdle /\ MethodsIdle /\ CorsIdle /\ ChainIdle /\ TracerIdle /\ MetricsIdle /\ ConcIdle /\ MuxIdle

SpecConfig == InitConfig /\ [][NextConfig]_vars

Constructed == kPc \in {"ready", "serving", "panicked"}

\* C14: construction of the masked variant panics exactly when the cookie
\* name starts with __Host- and Secure is false, Domain is not empty or Path
\* is not "/", or starts with __Secure- and Secure is false, or the cookie
\* name or the field name is empty; otherwise it succeeds.
C14_CookiePrefixValidation ==
    (Constructed /\ kVariant = "masked") =>
        (kPc = "panicked" <=>
            \/ /\ HasPrefix(kConfig.cookieName, HostPrefix)
               /\ \/ ~kConfig.secure
                  \/ kConfig.domain # <<>>
                  \/ kConfig.path # <<"/">>
            \/ HasPrefix(kConfig.cookieName, SecurePrefix) /\ ~kConfig.secure
            \/ kConfig.cookieName = <<>>
            \/ kConfig.fieldName = <<>>)

C14_Witness ==
    /\ kVariant = "masked" /\ kPc = "panicked"
    /\ kConfig.cookieName = HostPrefix \o <<"c">>
    /\ kConfig.fieldName # <<>>
    /\ kConfig.secure /\ kConfig.domain = <<>> /\ kConfig.path = <<"/", "a">>

MissingSignedField ==
    kVariant = "signed" /\ (kConfig.expires = 0 \/ ~kConfig.sessionFunc)

MissingFieldName ==
    kVariant = "masked" /\ (kConfig.cookieName = <<>> \/ kConfig.fieldName = <<>>)

SessionRequests ==
    {Request(m, sch, p, <<>>, ref, <<>>, h, <<>>, <<>>, <<>>, ses) :
        m \in {"GET", "POST"}, sch \in {"http", "https"},
        p \in {PathA, PathB},
        ref \in {<<>>, URLOf("https", "example.com")},
        h \in ClientTokens \cup {<<>>, ShortToken},
        ses \in {NoSession, Session(<<>>), Session(<<65>>)}}

ServeSession == \E req \in SessionRequests : Serve(req)

SessionInit ==
    /\ hVariant = "signed"
    /\ hExemptFunc = NilFunc
    /\ hExemptPaths \in {<<>>, <<PathB>>}
    /\ hNow = StartTime
    /\ hIssued = {}
    /\ hPc = "idle"
    /\ hReq = NoRequest
    /\ hResp = NoResponse
    /\ hSeen = {}

NextSession ==
    \/ ServeSession
    \/ Receive
    \/ Tick

InitSession == SessionInit /\ CodecIdle /\ TokenIdle /\ ConfigIdle /\ IfIdle /\ RecovererIdle /\ MethodsIdle /\ CorsIdle /\ ChainIdle /\ TracerIdle /\ MetricsIdle /\ ConcIdle /\ MuxIdle

SpecSession == InitSession /\ [][NextSession]_vars

TokenIssued == hResp.csrfHeader # <<>>

\* C16: in the session-bound signed variant, when the session lookup reports
\* no session every non-exempt request is rejected with 403 whatever token
\* it carries, and an exempt request reaches the handler without an
\* X-CSRF-Token header; a token is issued exactly when a session exists and
\* the request was not rejected.
C16_MissingSession ==
    (hPc = "served" /\ hVariant = "signed") =>
        /\ (~hReq.session.ok /\ NonExempt) => Rejected
        /\ (~hReq.session.ok /\ ~NonExempt) => (hResp.invoked /\ ~TokenIssued)
        /\ TokenIssued <=> (hReq.session.ok /\ ~Rejected)

\* A request without a session carries a token that was issued to the
\* session with the empty identifier and has not expired, and is rejected.
C16_Witness ==
    /\ hPc = "served" /\ hVariant = "signed"
    /\ ~hReq.session.ok /\ NonExempt /\ Rejected
    /\ hReq.scheme = "http"
    /\ \E i \in hIssued :
           /\ hReq.header = i.token
           /\ i.session = Session(<<>>)
           /\ hNow < i.at + Expires


(***************************************************************************)
(* If.  net/http serves each request on its own goroutine, so the calls of *)
(* the one handler that If returns interleave.  The handler runs in three  *)
(* steps: it evaluates cond and, when it holds, reads next to build        *)
(* then(next); it assigns the result to next; it reads next and calls it.  *)
(* The reads and the write of next are not synchronised.                   *)
(***************************************************************************)
IfInit ==
    /\ iNext = 0
    /\ iReq = [g \in Goroutines |-> NoServe]

\* A request arrives on goroutine g; c is what cond(r) will report.
Arrive(g, c) ==
    /\ iReq[g].pc = "none"
    /\ iNext < MaxWraps
    /\ iReq' = [iReq EXCEPT ![g] = [NoServe EXCEPT !.pc = "cond", !.cond = c]]
    /\ UNCHANGED <<iNext, notIfVars>>

\* if cond(r) { ... then(next) ... }
EvalCond(g) ==
    /\ iReq[g].pc = "cond"
    /\ iReq' = [iReq EXCEPT ![g] =
                   IF iReq[g].cond
                       THEN [@ EXCEPT !.pc = "assign", !.loaded = iNext]
                       ELSE [@ EXCEPT !.pc = "call"]]
    /\ UNCHANGED <<iNext, notIfVars>>

\* next = then(next)
AssignNext(g) ==
    /\ iReq[g].pc = "assign"
    /\ iNext' = iReq[g].loaded + 1
    /\ iReq' = [iReq EXCEPT ![g].pc = "call"]
    /\ UNCHANGED notIfVars

\* next.ServeHTTP(w, r): the request passes through as many applications
\* of `then` as are wrapped around next.
CallNext(g) ==
    /\ iReq[g].pc = "call"
    /\ iReq' = [iReq EXCEPT ![g].pc = "done", ![g].applied = iNext]
    /\ UNCHANGED <<iNext, notIfVars>>

\* The response is sent and the goroutine ends.
Finish(g) ==
    /\ iReq[g].pc = "done"
    /\ iReq' = [iReq EXCEPT ![g] = NoServe]
    /\ UNCHANGED <<iNext, notIfVars>>

NextIf ==
    \E g \in Goroutines :
        \/ \E c \in BOOLEAN : Arrive(g, c)
        \/ EvalCond(g)
        \/ AssignNext(g)
        \/ CallNext(g)
        \/ Finish(g)

InitIf == IfInit /\ CodecIdle /\ TokenIdle /\ HandlerIdle /\ ConfigIdle /\ RecovererIdle /\ MethodsIdle /\ CorsIdle /\ ChainIdle /\ TracerIdle /\ MetricsIdle /\ ConcIdle /\ MuxIdle

SpecIf == InitIf /\ [][NextIf]_vars

\* C17: whatever requests one handler built with If(cond, then)(next) has
\* served and is serving, a request for which cond is false reaches next
\* without `then` applied, and a request for which cond is true passes
\* through `then` exactly once.
C17_IfAppliesOnlyIfTrue ==
    \A g \in Goroutines :
        iReq[g].pc = "done" =>
            iReq[g].applied = (IF iReq[g].cond THEN 1 ELSE 0)


(***************************************************************************)
(* Recoverer.  The endpoint may write a status and may panic; the deferred *)
(* function of Recoverer then runs.  A panic value has a kind: the value   *)
(* http.ErrAbortHandler, an error that is a httpsyproblem.Details, another *)
(* error, a string, or a value of another type.                            *)
(***************************************************************************)
ErrAbortHandler == [kind |-> "abort", detail |-> "net/http: abort Handler", status |-> 0]

PanicValues ==
    {NoPanic, ErrAbortHandler,
     [kind |-> "details", detail |-> "gone", status |-> 404],
     [kind |-> "error", detail |-> "panic!", status |-> 0],
     [kind |-> "string", detail |-> "gopher!", status |-> 0],
     [kind |-> "other", detail |-> "42", status |-> 0]}

\* httpsyproblem.Wrap(err, statusCode), for the three cases of the type
\* switch: a Details keeps its detail, any other value gives its message;
\* the status is always the one given.
Wrap(x, statusCode) == [detail |-> x.detail, status |-> statusCode]

\* Error(w, r, err) with TextError or JSONError: the error handler gets err
\* and writes StatusCode(err) unless a status was written before.
Error(w, err) ==
    [w EXCEPT !.status = IF w.status = 0 THEN err.status ELSE w.status,
              !.errStatus = err.status,
              !.errDetail = err.detail]

\* The deferred function of Recoverer, given v == recover() and the response
\* so far: the response it leaves and the value it panics with.  The version
\* "repanic" is the function that panics again with http.ErrAbortHandler;
\* the version "skip" is the function whose condition leaves it out.
Recoverer(version, v, w) ==
    IF version = "repanic"
        THEN IF v = ErrAbortHandler THEN [resp |-> w, panic |-> v]
             ELSE IF v # NoPanic
                 THEN [resp |-> Error(w, Wrap(v, 500)), panic |-> NoPanic]
             ELSE [resp |-> w, panic |-> NoPanic]
    ELSE IF v # NoPanic /\ v # ErrAbortHandler
        THEN [resp |-> Error(w, Wrap(v, 500)), panic |-> NoPanic]
    ELSE [resp |-> w, panic |-> NoPanic]

RecovererInit ==
    /\ rVersion \in {"repanic", "skip"}
    /\ rPanic \in PanicValues
    /\ rWrites \in {0, 200, 204}
    /\ rResp = NoRecovererResponse
    /\ rPropagated = NoPanic
    /\ rPc = "new"

\* next.ServeHTTP(w, r)
CallEndpoint ==
    /\ rPc = "new"
    /\ rResp' = [rResp EXCEPT !.status = rWrites]
    /\ rPc' = "called"
    /\ UNCHANGED <<rVersion, rPanic, rWrites, rPropagated, notRecovererVars>>

\* The deferred function runs when the endpoint returns or panics.
Deferred ==
    /\ rPc = "called"
    /\ LET out == Recoverer(rVersion, rPanic, rResp)
       IN  rResp' = out.resp /\ rPropagated' = out.panic
    /\ rPc' = "done"
    /\ UNCHANGED <<rVersion, rPanic, rWrites, notRecovererVars>>

NextRecoverer == CallEndpoint \/ Deferred

InitRecoverer == RecovererInit /\ CodecIdle /\ TokenIdle /\ HandlerIdle /\ ConfigIdle /\ IfIdle /\ MethodsIdle /\ CorsIdle /\ ChainIdle /\ TracerIdle /\ MetricsIdle /\ ConcIdle /\ MuxIdle

SpecRecoverer == InitRecoverer /\ [][NextRecoverer]_vars

\* C18: when the wrapped handler panics with a value other than
\* http.ErrAbortHandler the panic does not propagate and the error handler
\* is invoked with status 500; when it panics with http.ErrAbortHandler the
\* panic propagates to the caller and no 500 response is written; when it
\* does not panic, Recoverer adds nothing to the response.
C18_Recoverer ==
    rPc = "done" =>
        /\ rPanic \notin {NoPanic, ErrAbortHandler} =>
               (rPropagated = NoPanic /\ rResp.errStatus = 500)
        /\ rPanic = ErrAbortHandler =>
               (rPropagated = ErrAbortHandler /\ rResp.errStatus = 0
                    /\ rResp.status # 500)
        /\ rPanic = NoPanic =>
               (rPropagated = NoPanic
                    /\ rResp = [NoRecovererResponse EXCEPT !.status = rWrites])


(***************************************************************************)
(* Methods.  A handler is the set of methods M whose Serve<M> it has and   *)
(* the ServeHTTP it has: that of MethodHandler or of a ...HandlerFunc      *)
(* adapter, which answers 405, or one of its own, which answers 204.       *)
(***************************************************************************)
\* The methods with a handler interface, in the order of listAllowedMethods.
MethodOrder ==
    <<"CONNECT", "DELETE", "GET", "HEAD", "OPTIONS", "PATCH", "POST", "PUT", "TRACE">>

Range(seq) == {seq[i] : i \in DOMAIN seq}

isMethodHandler(handler) == handler.implements # {}

\* A faulty list of allowed methods that names every method.
listEveryMethod(handler) == MethodOrder

listAllowedMethods(handler) ==
    SelectSeq(MethodOrder, LAMBDA m : m \in handler.implements)

\* handler.ServeHTTP(w, r): MethodHandler and the adapters reply
\* Error(w, r, StatusMethodNotAllowed); the adapters first set Allow to the
\* methods they implement.
serveHTTP(handler, w) ==
    CASE handler.serveHTTP = "MethodHandler" ->
             [w EXCEPT !.served = "ServeHTTP", !.status = 405]
      [] handler.serveHTTP = "HandlerFunc" ->
             [w EXCEPT !.served = "ServeHTTP", !.status = 405,
                       !.allow = listAllowedMethods(handler)]
      [] OTHER -> [w EXCEPT !.served = "ServeHTTP", !.status = 204]

\* The handler that Methods returns for a method handler.
dispatch(handler, allowedMethods, method) ==
    IF method \in Range(MethodOrder) /\ method \in handler.implements
        THEN [NoMethodsResponse EXCEPT !.served = method, !.status = 200]
        ELSE serveHTTP(handler, [NoMethodsResponse EXCEPT !.allow = allowedMethods])

\* An adapter implements one method, or GET and HEAD.
Handlers ==
    {h \in [implements : SUBSET Range(MethodOrder),
            serveHTTP : {"MethodHandler", "HandlerFunc", "own"}] :
        h.serveHTTP = "HandlerFunc" =>
            (Cardinality(h.implements) = 1 \/ h.implements = {"GET", "HEAD"})}

RequestMethods == Range(MethodOrder) \cup {"TEAPOT", "get"}

MethodsInit ==
    /\ dHandler \in Handlers
    /\ dWrapped = FALSE
    /\ dMethod = ""
    /\ dResp = NoMethodsResponse
    /\ dPc = "new"

\* x := Methods(next)
ApplyMethods ==
    /\ dPc = "new"
    /\ dWrapped' = isMethodHandler(dHandler)
    /\ dPc' = "applied"
    /\ UNCHANGED <<dHandler, dMethod, dResp, notMethodsVars>>

\* x.ServeHTTP(w, r)
ServeMethod(method) ==
    /\ dPc = "applied"
    /\ dMethod' = method
    /\ dResp' = IF dWrapped
                   THEN dispatch(dHandler, listAllowedMethods(dHandler), method)
                   ELSE serveHTTP(dHandler, NoMethodsResponse)
    /\ dPc' = "served"
    /\ UNCHANGED <<dHandler, dWrapped, notMethodsVars>>

NextMethods == ApplyMethods \/ \E method \in RequestMethods : ServeMethod(method)

InitMethods == MethodsInit /\ CodecIdle /\ TokenIdle /\ HandlerIdle /\ ConfigIdle /\ IfIdle /\ RecovererIdle /\ CorsIdle /\ ChainIdle /\ TracerIdle /\ MetricsIdle /\ ConcIdle /\ MuxIdle

SpecMethods == InitMethods /\ [][NextMethods]_vars

Implemented == dMethod \in dHandler.implements

\* What the claim and its amendment share: a method handler gets a request
\* at Serve<M> exactly when it implements M, and any other request with the
\* Allow header listing exactly the implemented methods; a handler that
\* implements no method is returned unchanged and gets every request.
DispatchRule ==
    IF dHandler.implements # {}
        THEN /\ dWrapped
             /\ Implemented <=> dResp.served = dMethod
             /\ ~Implemented =>
                    /\ dResp.served = "ServeHTTP"
                    /\ Range(dResp.allow) = dHandler.implements
                    /\ Len(dResp.allow) = Cardinality(dHandler.implements)
        ELSE /\ ~dWrapped
             /\ dResp = serveHTTP(dHandler, NoMethodsResponse)

\* C19 as claimed: for a handler wrapped by Methods that implements a method
\* interface, a request with method M is dispatched to Serve<M> if and only
\* if the handler implements it, and every other request is answered 405
\* with Allow listing exactly the implemented methods; a handler that
\* implements none is returned unchanged and receives every request.
C19_MethodDispatch ==
    dPc = "served" =>
        /\ DispatchRule
        /\ (dHandler.implements # {} /\ ~Implemented) => dResp.status = 405

\* C19 amended: every other request goes to the handler's ServeHTTP with
\* Allow listing exactly the implemented methods, and is answered 405 when
\* that ServeHTTP is the one of MethodHandler or of a ...HandlerFunc adapter.
C19_MethodDispatchToServeHTTP ==
    dPc = "served" =>
        /\ DispatchRule
        /\ (dHandler.implements # {} /\ ~Implemented /\ dHandler.serveHTTP # "own")
               => dResp.status = 405

C19_Witness ==
    /\ dPc = "served"
    /\ dHandler = [implements |-> {"GET", "POST"}, serveHTTP |-> "MethodHandler"]
    /\ dMethod = "PUT"
    /\ dResp = [served |-> "ServeHTTP", status |-> 405, allow |-> <<"GET", "POST">>]


(***************************************************************************)
(* CORS.  A string is a sequence of tokens; a header value is the sequence *)
(* of the tokens of its string, and the empty string is <<>>.  An origin   *)
(* is scheme, ":", "/", "/", host, so that the "*" of path.Match stops at  *)
(* its slashes.                                                            *)
(***************************************************************************)
\* strings.ToLower on the tokens of the model.
lowerToken(t) ==
    CASE t = "HTTPS" -> "https"
      [] t = "A.COM" -> "a.com"
      [] OTHER -> t

toLower(s) == [i \in DOMAIN s |-> lowerToken(s[i])]

\* textproto.CanonicalMIMEHeaderKey on the tokens of the model.
canonicalMIMEHeaderKey(t) ==
    CASE t = "x-a" -> "X-A"
      [] t = "x-b" -> "X-B"
      [] OTHER -> t

\* stringsJoinMap(elems, ", ", fn): fn is applied to every element but the
\* first.
RECURSIVE joinRest(_, _)
joinRest(elems, i) ==
    IF i > Len(elems) THEN <<>>
    ELSE <<", ", canonicalMIMEHeaderKey(elems[i])>> \o joinRest(elems, i + 1)

stringsJoinMap(elems) ==
    IF Len(elems) = 0 THEN <<>>
    ELSE IF Len(elems) = 1 THEN <<elems[1]>>
    ELSE <<elems[1]>> \o joinRest(elems, 2)

\* strings.Join(elems, ", ")
RECURSIVE stringsJoin(_)
stringsJoin(elems) ==
    IF Len(elems) = 0 THEN <<>>
    ELSE IF Len(elems) = 1 THEN <<elems[1]>>
    ELSE <<elems[1], ", ">> \o stringsJoin(Tail(elems))

Digits == <<"0", "1", "2", "3", "4", "5", "6", "7", "8", "9">>

\* strconv.Itoa of a positive number.
RECURSIVE itoa(_)
itoa(n) ==
    IF n < 10 THEN <<Digits[n + 1]>>
    ELSE itoa(n \div 10) \o <<Digits[(n % 10) + 1]>>

\* h.Set(name, value)
headerSet(h, name, value) ==
    [n \in DOMAIN h \cup {name} |-> IF n = name THEN value ELSE h[n]]

OriginA == <<"https", ":", "/", "/", "a.com">>
OriginAUpper == <<"HTTPS", ":", "/", "/", "A.COM">>
OriginB == <<"https", ":", "/", "/", "b.com">>

\* cors.AllowOriginFunc(r): "any" allows every origin as "*", "onlyB"
\* allows the origin b.com and reflects it.
allowOriginFunc(kind, origin) ==
    CASE kind = "any" -> [origin |-> <<"*">>, ok |-> TRUE]
      [] kind = "onlyB" -> [origin |-> origin, ok |-> origin = OriginB]
      [] OTHER -> [origin |-> <<>>, ok |-> FALSE]

\* next.ServeHTTP(w, r): the endpoint answers 204.
corsNext(w) == [w EXCEPT !.invoked = TRUE, !.status = 204]

\* A faulty credentials rule that does not look at the allowed origin.
setCredentialsAlways(cors, origin, h) ==
    IF cors.allowCredentials
        THEN headerSet(h, "Access-Control-Allow-Credentials", <<"true">>)
        ELSE h

\* if cors.AllowCredentials && origin != "*" { h.Set(...) }
setCredentials(cors, origin, h) ==
    IF cors.allowCredentials /\ origin # <<"*">>
        THEN headerSet(h, "Access-Control-Allow-Credentials", <<"true">>)
        ELSE h

\* The handler that cors.Handle(next) returns, called with the request r.
corsHandle(cors, r) ==
    LET allowMethods == stringsJoin(cors.allowMethods)
        allowHeaders == stringsJoinMap(cors.allowHeaders)
        exposeHeaders == stringsJoinMap(cors.exposeHeaders)
        maxAge == IF cors.maxAge > 0 THEN itoa(cors.maxAge) ELSE <<"-", "1">>
        allowOrigins == [i \in DOMAIN cors.allowOrigins |-> toLower(cors.allowOrigins[i])]
        hasOrigin == r.origin # <<>>
        isPreflight == r.method = "OPTIONS" /\ r.acrMethod # <<>>
        byFunc == allowOriginFunc(cors.allowOriginFunc, r.origin)
        origin == IF ~hasOrigin THEN r.origin
                  ELSE IF cors.allowOriginFunc # "nil" THEN byFunc.origin
                  ELSE IF Len(allowOrigins) = 0 THEN <<"*">>
                  ELSE r.origin
        isCORS == IF ~hasOrigin THEN FALSE
                  ELSE IF cors.allowOriginFunc # "nil" THEN byFunc.ok
                  ELSE IF Len(allowOrigins) = 0 THEN TRUE
                  ELSE stringsMatch(allowOrigins, toLower(r.origin))
        w0 == IF hasOrigin THEN [NoCorsResponse EXCEPT !.vary = <<"Origin">>]
              ELSE NoCorsResponse
        h1 == headerSet(w0.header, "Access-Control-Allow-Origin", origin)
        h2 == setCredentials(cors, origin, h1)
        h3 == IF ~isPreflight /\ exposeHeaders # <<>>
                  THEN headerSet(h2, "Access-Control-Expose-Headers", exposeHeaders)
                  ELSE h2
        h4 == headerSet(h3, "Access-Control-Allow-Headers",
                        IF allowHeaders # <<>> THEN allowHeaders ELSE r.acrHeaders)
        h5 == headerSet(h4, "Access-Control-Allow-Methods",
                        IF allowMethods # <<>> THEN allowMethods ELSE r.acrMethod)
        h6 == headerSet(h5, "Access-Control-Max-Age", maxAge)
        vary6 == w0.vary \o <<"Access-Control-Request-Headers",
                              "Access-Control-Request-Method">>
    IN  IF ~isCORS THEN corsNext(w0)
        ELSE IF ~isPreflight THEN corsNext([w0 EXCEPT !.header = h3])
        ELSE IF ~cors.optionsPassthrough
            THEN [w0 EXCEPT !.header = headerSet(h6, "Content-Length", <<"0">>),
                            !.vary = vary6, !.status = 200]
        ELSE corsNext([w0 EXCEPT !.header = h6, !.vary = vary6])

CorsConfigs ==
    [allowCredentials : BOOLEAN,
     allowHeaders : {<<>>, <<"x-a", "x-b">>},
     allowMethods : {<<>>, <<"GET", "PUT">>},
     allowOrigins : {<<>>, <<OriginA>>, <<OriginAUpper, <<"*">>>>},
     allowOriginFunc : {"nil", "any", "onlyB"},
     exposeHeaders : {<<>>, <<"x-b">>},
     maxAge : {0 - 1, 0, 600},
     optionsPassthrough : BOOLEAN]

CorsRequests ==
    [method : {"GET", "OPTIONS"},
     origin : {<<>>, OriginA, OriginAUpper, OriginB, <<"*">>},
     acrMethod : {<<>>, <<"PUT">>},
     acrHeaders : {<<>>, <<"X-C">>}]

CorsInit ==
    /\ oCors \in CorsConfigs
    /\ oReq = NoCorsRequest
    /\ oResp = NoCorsResponse
    /\ oPc = "idle"

ServeCors(r) ==
    /\ oPc = "idle"
    /\ oReq' = r
    /\ oResp' = corsHandle(oCors, r)
    /\ oPc' = "served"
    /\ UNCHANGED <<oCors, notCorsVars>>

NextCors == \E r \in CorsRequests : ServeCors(r)

InitCors == CorsInit /\ CodecIdle /\ TokenIdle /\ HandlerIdle /\ ConfigIdle /\ IfIdle /\ RecovererIdle /\ MethodsIdle /\ ChainIdle /\ TracerIdle /\ MetricsIdle /\ ConcIdle /\ MuxIdle

SpecCors == InitCors /\ [][NextCors]_vars


AccessControlHeaders == DOMAIN oResp.header \ {"Content-Length"}

Preflight == oReq.method = "OPTIONS" /\ oReq.acrMethod # <<>>

MatchesAllowOrigins ==
    \E i \in DOMAIN oCors.allowOrigins :
        pathMatch(toLower(oCors.allowOrigins[i]), toLower(oReq.origin))

\* The origin of the request is allowed: by AllowOriginFunc when it is set,
\* else by an empty AllowOrigins list or a match in the list.
OriginAllowed ==
    /\ oReq.origin # <<>>
    /\ IF oCors.allowOriginFunc # "nil"
           THEN allowOriginFunc(oCors.allowOriginFunc, oReq.origin).ok
           ELSE oCors.allowOrigins = <<>> \/ MatchesAllowOrigins

HeaderIs(name, value) ==
    name \in DOMAIN oResp.header /\ oResp.header[name] = value

\* A preflight response: the four headers are set, Max-Age is "-1" when
\* MaxAge is unset, empty lists reflect the request's values, and the
\* request is answered 200 with Content-Length 0 without the next handler
\* unless OptionsPassthrough is set.
PreflightAnswered ==
    /\ {"Access-Control-Allow-Origin", "Access-Control-Allow-Headers",
        "Access-Control-Allow-Methods", "Access-Control-Max-Age"}
           \subseteq DOMAIN oResp.header
    /\ oCors.maxAge = 0 => HeaderIs("Access-Control-Max-Age", <<"-", "1">>)
    /\ oCors.allowHeaders = <<>> =>
           HeaderIs("Access-Control-Allow-Headers", oReq.acrHeaders)
    /\ oCors.allowMethods = <<>> =>
           HeaderIs("Access-Control-Allow-Methods", oReq.acrMethod)
    /\ IF oCors.optionsPassthrough
           THEN oResp.invoked
           ELSE /\ ~oResp.invoked /\ oResp.status = 200
                /\ HeaderIs("Content-Length", <<"0">>)

NoCredentialsForAnyOrigin ==
    HeaderIs("Access-Control-Allow-Origin", <<"*">>) =>
        "Access-Control-Allow-Credentials" \notin DOMAIN oResp.header

\* The AllowOrigins list allows the origin: it is empty, which allows every
\* origin, or one of its patterns matches.
AllowedByList == oCors.allowOrigins = <<>> \/ MatchesAllowOrigins

\* C20 as claimed: a request without Origin, or whose Origin matches none of
\* the configured AllowOrigins, gets no Access-Control-* header and is passed
\* on; a preflight from an origin that the list allows gets Allow-Origin,
\* Allow-Headers, Allow-Methods and Max-Age and is answered 200 with
\* Content-Length 0 without the next handler unless OptionsPassthrough is
\* set; Allow-Credentials is never set when Allow-Origin is "*".
C20_CorsHandling ==
    oPc = "served" =>
        /\ (oReq.origin = <<>> \/ ~AllowedByList) =>
               (AccessControlHeaders = {} /\ oResp.invoked)
        /\ (Preflight /\ oReq.origin # <<>> /\ AllowedByList) =>
               PreflightAnswered
        /\ NoCredentialsForAnyOrigin

\* C20 amended: the origin of a request is allowed by AllowOriginFunc when
\* that is set, and otherwise when AllowOrigins is empty or the Origin
\* matches one of its patterns.  A request without Origin or whose origin is
\* not allowed gets no Access-Control-* header and is passed on; a preflight
\* from an allowed origin is answered as claimed; Allow-Credentials is never
\* set when Allow-Origin is "*".
C20_CorsHandlingAllowedOrigin ==
    oPc = "served" =>
        /\ ~OriginAllowed => (AccessControlHeaders = {} /\ oResp.invoked)
        /\ (Preflight /\ OriginAllowed) => PreflightAnswered
        /\ NoCredentialsForAnyOrigin

C20_Witness ==
    /\ oPc = "served"
    /\ Preflight /\ oReq.origin = OriginAUpper
    /\ oCors.allowOriginFunc = "nil" /\ oCors.allowOrigins = <<OriginA>>
    /\ oCors.allowHeaders = <<>> /\ oCors.maxAge = 0 /\ oCors.allowCredentials
    /\ ~oCors.optionsPassthrough
    /\ oResp.status = 200 /\ ~oResp.invoked
    /\ HeaderIs("Access-Control-Allow-Origin", OriginAUpper)
    /\ HeaderIs("Access-Control-Allow-Headers", oReq.acrHeaders)
    /\ HeaderIs("Access-Control-Max-Age", <<"-", "1">>)
    /\ HeaderIs("Access-Control-Allow-Credentials", <<"true">>)


(***************************************************************************)
(* Chain.  A middleware either calls the handler it was given ("pass"),    *)
(* answers without calling it ("stop"), or is Endpoint(h), which returns h *)
(* whatever handler it is given.  A handler is the sequence of its layers  *)
(* from the outside in, ending in a terminal handler.                      *)
(***************************************************************************)
TheEndpoint == <<[kind |-> "handler", id |-> "endpoint"]>>

\* m(h) for a middleware m and a handler h.
applyMiddleware(m, h) ==
    IF m.kind = "Endpoint" THEN <<[kind |-> "handler", id |-> m.id]>>
    ELSE <<m>> \o h

\* A faulty loop that applies the middlewares from the first to the last.
RECURSIVE wrapForward(_, _, _)
wrapForward(mw, i, h) ==
    IF i = 0 THEN h
    ELSE wrapForward(mw, i - 1, applyMiddleware(mw[Len(mw) + 1 - i], h))

\* for i := len(mw) - 1; i >= 0; i-- { h = mw[i](h) }, with i counted from 1.
RECURSIVE wrapBackward(_, _, _)
wrapBackward(mw, i, h) ==
    IF i = 0 THEN h
    ELSE wrapBackward(mw, i - 1, applyMiddleware(mw[i], h))

\* Middlewares.Handler
chainHandler(mw, endpoint) ==
    IF Len(mw) = 0 THEN endpoint ELSE wrapBackward(mw, Len(mw), endpoint)

\* h.ServeHTTP(w, r): the layers that run.
RECURSIVE serveLayers(_, _)
serveLayers(h, i) ==
    IF i > Len(h) THEN <<>>
    ELSE IF h[i].kind = "pass" THEN <<h[i].id>> \o serveLayers(h, i + 1)
    ELSE <<h[i].id>>

ChainMiddlewares ==
    {[kind |-> "pass", id |-> "a"], [kind |-> "pass", id |-> "b"],
     [kind |-> "stop", id |-> "c"], [kind |-> "Endpoint", id |-> "e"]}

ChainInit ==
    /\ chMws \in UNION {[1..n -> ChainMiddlewares] : n \in 0..MaxChain}
    /\ chHandler = <<>>
    /\ chTrace = <<>>
    /\ chPc = "new"

\* x := Chain(mws...).Handler(endpoint)
BuildChain ==
    /\ chPc = "new"
    /\ chHandler' = chainHandler(chMws, TheEndpoint)
    /\ chPc' = "built"
    /\ UNCHANGED <<chMws, chTrace, notChainVars>>

\* x.ServeHTTP(w, r)
ServeChain ==
    /\ chPc = "built"
    /\ chTrace' = serveLayers(chHandler, 1)
    /\ chPc' = "served"
    /\ UNCHANGED <<chMws, chHandler, notChainVars>>

NextChain == BuildChain \/ ServeChain

InitChain == ChainInit /\ CodecIdle /\ TokenIdle /\ HandlerIdle /\ ConfigIdle /\ IfIdle /\ RecovererIdle /\ MethodsIdle /\ CorsIdle /\ TracerIdle /\ MetricsIdle /\ ConcIdle /\ MuxIdle

SpecChain == InitChain /\ [][NextChain]_vars

\* The middlewares of chMws that run, read from the first: each one that
\* passes lets the next run, the first that does not pass is the last, and
\* the endpoint runs when all pass.
RECURSIVE listedOrder(_)
listedOrder(i) ==
    IF i > Len(chMws) THEN <<"endpoint">>
    ELSE IF chMws[i].kind = "pass" THEN <<chMws[i].id>> \o listedOrder(i + 1)
    ELSE <<chMws[i].id>>

\* C21: Chain(m1, ..., mn).Handler(endpoint) is m1(m2(...mn(endpoint)...)):
\* on a request the middlewares run in the order they were listed, the
\* endpoint runs last, a middleware that short-circuits keeps every later
\* middleware and the endpoint from running, and an empty chain returns the
\* endpoint itself.
C21_ChainOrder ==
    /\ chPc \in {"built", "served"} =>
           (chMws = <<>> => chHandler = TheEndpoint)
    /\ chPc = "served" => chTrace = listedOrder(1)

C21_Witness ==
    /\ chPc = "served"
    /\ chMws = <<[kind |-> "pass", id |-> "a"], [kind |-> "pass", id |-> "b"],
                 [kind |-> "stop", id |-> "c"]>>
    /\ chTrace = <<"a", "b", "c">>


(***************************************************************************)
(* The tracer's ResponseWriter.  A call of WriteHeader, Write, Flush or    *)
(* ReadFrom runs in steps: the compare-and-swap of wroteHeader, the        *)
(* WriteHeader hook when the swap succeeded, and the hook of the call      *)
(* itself (tracer.Write for Write and ReadFrom, tracer.Flush for Flush).   *)
(* The steps of calls made on different goroutines interleave.             *)
(***************************************************************************)
\* The status a call asks for: its argument, or http.StatusOK.
statusOf(op, status) == IF op = "WriteHeader" THEN status ELSE 200

TracerInit ==
    /\ wWroteHeader = 0
    /\ wCall = [g \in Goroutines |-> NoCall]
    /\ wCalls = 0
    /\ wFirst = 0
    /\ wOverlapped = FALSE
    /\ wHeaderHooks = 0
    /\ wHeaderStatus = 0
    /\ wEarlyWrites = 0

\* Goroutine g calls w.WriteHeader(status), w.Write, w.Flush or w.ReadFrom.
BeginCall(g, op, status) ==
    /\ wCall[g].pc = "none"
    /\ wCalls < MaxCalls
    /\ wCall' = [wCall EXCEPT ![g] = [pc |-> "cas", op |-> op, status |-> statusOf(op, status)]]
    /\ wCalls' = wCalls + 1
    /\ wFirst' = IF wCalls = 0 THEN statusOf(op, status) ELSE wFirst
    /\ wOverlapped' = (wOverlapped \/ \E o \in Goroutines \ {g} : wCall[o].pc # "none")
    /\ UNCHANGED <<wWroteHeader, wHeaderHooks, wHeaderStatus, wEarlyWrites, notTracerVars>>

\* What follows the WriteHeader part of a call: its own hook, or the return.
afterHeader(op) == IF op = "WriteHeader" THEN "return" ELSE "body"

\* A faulty WriteHeader that sets wroteHeader without testing it.
storeWroteHeader(g) ==
    /\ wCall[g].pc = "cas"
    /\ wWroteHeader' = 1
    /\ wCall' = [wCall EXCEPT ![g].pc = "hook"]
    /\ UNCHANGED <<wCalls, wFirst, wOverlapped, wHeaderHooks, wHeaderStatus, wEarlyWrites, notTracerVars>>

\* atomic.CompareAndSwapInt32(&w.wroteHeader, 0, 1)
CompareAndSwap(g) ==
    /\ wCall[g].pc = "cas"
    /\ wWroteHeader' = 1
    /\ wCall' = [wCall EXCEPT ![g].pc =
                    IF wWroteHeader = 0 THEN "hook" ELSE afterHeader(wCall[g].op)]
    /\ UNCHANGED <<wCalls, wFirst, wOverlapped, wHeaderHooks, wHeaderStatus, wEarlyWrites, notTracerVars>>

\* w.tracer.WriteHeader(w.ResponseWriter, statusCode)
HeaderHook(g) ==
    /\ wCall[g].pc = "hook"
    /\ wHeaderHooks' = wHeaderHooks + 1
    /\ wHeaderStatus' = wCall[g].status
    /\ wCall' = [wCall EXCEPT ![g].pc = afterHeader(wCall[g].op)]
    /\ UNCHANGED <<wWroteHeader, wCalls, wFirst, wOverlapped, wEarlyWrites, notTracerVars>>

\* w.tracer.Write(...) or w.tracer.Flush(...), and the return.
BodyHook(g) ==
    /\ wCall[g].pc = "body"
    /\ wEarlyWrites' = IF wCall[g].op # "Flush" /\ wHeaderHooks = 0
                          THEN wEarlyWrites + 1 ELSE wEarlyWrites
    /\ wCall' = [wCall EXCEPT ![g] = NoCall]
    /\ UNCHANGED <<wWroteHeader, wCalls, wFirst, wOverlapped, wHeaderHooks, wHeaderStatus, notTracerVars>>

\* A WriteHeader call returns.
ReturnCall(g) ==
    /\ wCall[g].pc = "return"
    /\ wCall' = [wCall EXCEPT ![g] = NoCall]
    /\ UNCHANGED <<wWroteHeader, wCalls, wFirst, wOverlapped, wHeaderHooks, wHeaderStatus, wEarlyWrites, notTracerVars>>

NextTracer ==
    \E g \in Goroutines :
        \/ \E status \in {404, 500} : BeginCall(g, "WriteHeader", status)
        \/ \E op \in {"Write", "Flush", "ReadFrom"} : BeginCall(g, op, 0)
        \/ CompareAndSwap(g)
        \/ HeaderHook(g)
        \/ BodyHook(g)
        \/ ReturnCall(g)

InitTracer == TracerInit /\ CodecIdle /\ TokenIdle /\ HandlerIdle /\ ConfigIdle /\ IfIdle /\ RecovererIdle /\ MethodsIdle /\ CorsIdle /\ ChainIdle /\ MetricsIdle /\ ConcIdle /\ MuxIdle

SpecTracer == InitTracer /\ [][NextTracer]_vars

sentWriteHeader(sent, statusCode) ==
    IF sent.status = 0 THEN [sent EXCEPT !.status = statusCode] ELSE sent

\* w.Write(p) on the underlying ResponseWriter, with len(p) = n.
sentWrite(sent, n) ==
    [status |-> IF sent.status = 0 THEN 200 ELSE sent.status,
     bytes |-> sent.bytes + n]

\* Metrics.WriteHeader: m is the Metrics, sent the underlying response.
metricsWriteHeader(m, sent, statusCode) ==
    [m |-> [m EXCEPT !.statusCode = statusCode],
     sent |-> sentWriteHeader(sent, statusCode)]

\* Metrics.Write
metricsWrite(m, sent, n) ==
    [m |-> [m EXCEPT !.bytesWritten = m.bytesWritten + n],
     sent |-> sentWrite(sent, n)]

\* responseWriterTracer.WriteHeader, called by the handler alone: the result
\* of the compare-and-swap and of the hook when the swap succeeded.
tracerWriteHeader(wroteHeader, m, sent, statusCode) ==
    IF wroteHeader = 0 THEN metricsWriteHeader(m, sent, statusCode)
    ELSE [m |-> m, sent |-> sent]

TheMetrics == [statusCode |-> xStatusCode, bytesWritten |-> xBytesWritten]

MetricsInit ==
    /\ xStatusCode = 0
    /\ xBytesWritten = 0
    /\ xWroteHeader = 0
    /\ xSent = NothingSent
    /\ xCalls = 0
    /\ xPc = "running"

\* The handler calls w.WriteHeader(statusCode).
HandlerWriteHeader(statusCode) ==
    /\ xPc = "running" /\ xCalls < MaxCalls
    /\ LET out == tracerWriteHeader(xWroteHeader, TheMetrics, xSent, statusCode)
       IN  /\ xStatusCode' = out.m.statusCode
           /\ xBytesWritten' = out.m.bytesWritten
           /\ xSent' = out.sent
    /\ xWroteHeader' = 1
    /\ xCalls' = xCalls + 1
    /\ UNCHANGED <<xPc, notMetricsVars>>

\* The handler calls w.Write(p) with len(p) = n.
HandlerWrite(n) ==
    /\ xPc = "running" /\ xCalls < MaxCalls
    /\ LET hdr == tracerWriteHeader(xWroteHeader, TheMetrics, xSent, 200)
           out == metricsWrite(hdr.m, hdr.sent, n)
       IN  /\ xStatusCode' = out.m.statusCode
           /\ xBytesWritten' = out.m.bytesWritten
           /\ xSent' = out.sent
    /\ xWroteHeader' = 1
    /\ xCalls' = xCalls + 1
    /\ UNCHANGED <<xPc, notMetricsVars>>

\* The handler returns and the server finishes the response.
HandlerReturn ==
    /\ xPc = "running"
    /\ xSent' = sentWriteHeader(xSent, 200)
    /\ xPc' = "finished"
    /\ UNCHANGED <<xStatusCode, xBytesWritten, xWroteHeader, xCalls, notMetricsVars>>

NextMetrics ==
    \/ \E statusCode \in {201, 404, 500} : HandlerWriteHeader(statusCode)
    \/ \E n \in 0..MaxCalls : HandlerWrite(n)
    \/ HandlerReturn

InitMetrics == MetricsInit /\ CodecIdle /\ TokenIdle /\ HandlerIdle /\ ConfigIdle /\ IfIdle /\ RecovererIdle /\ MethodsIdle /\ CorsIdle /\ ChainIdle /\ TracerIdle /\ ConcIdle /\ MuxIdle

SpecMetrics == InitMetrics /\ [][NextMetrics]_vars

\* C23: after the handler has finished, whatever WriteHeader and Write
\* calls it made (none included), Metrics.StatusCode is the status of the
\* response sent and Metrics.BytesWritten the number of body bytes written
\* to the underlying response.
C23_MetricsAgree ==
    xPc = "finished" =>
        /\ xStatusCode = xSent.status
        /\ xBytesWritten = xSent.bytes


(***************************************************************************)
(* The same server, with a client that puts tokens into the header, the    *)
(* POST form field and the multipart form field of its requests.           *)
(***************************************************************************)
SourceTokens == ClientTokens \cup ForgedTokens \cup {<<>>}

MultipartValues ==
    {<<>>} \cup {<<t>> : t \in ClientTokens}
           \cup {<<flipToken(t), t>> : t \in ClientTokens}

SourceRequests ==
    {Request(m, "http", PathA, <<>>, <<>>, <<>>, h, f, mp, c, ses) :
        m \in {"GET", "POST"}, h \in SourceTokens, f \in SourceTokens \ {LongToken},
        mp \in MultipartValues,
        c \in CookiesOf(hVariant) \ {LongCookie},
        ses \in SessionsOf(hVariant) \ {Session(<<66>>)}}

ServeSources == \E req \in SourceRequests : Serve(req)

NextExtract ==
    \/ ServeSources
    \/ Receive

InitExtract == HandlerInit /\ CodecIdle /\ TokenIdle /\ ConfigIdle /\ IfIdle /\ RecovererIdle /\ MethodsIdle /\ CorsIdle /\ ChainIdle /\ TracerIdle /\ MetricsIdle /\ ConcIdle /\ MuxIdle

SpecExtract == InitExtract /\ [][NextExtract]_vars

\* The token the precedence rule selects: the header, else the POST form
\* field, else the first value of the multipart form field, else none.
SelectedToken ==
    IF hReq.header # <<>> THEN hReq.header
    ELSE IF hReq.form # <<>> THEN hReq.form
    ELSE IF hReq.multipart # <<>> THEN Head(hReq.multipart)
    ELSE <<>>

\* The token tok verifies for the cookie in effect or the session of the
\* request.
TokenVerifies(tok) ==
    CASE hVariant = "masked" ->
             csrfVerify(MaskSecret, CookieInEffect, tok) = "true"
      [] hVariant = "signed" ->
             csrfVerifyToken(SignSecret, b64DecodeString(tok).bytes,
                             hReq.session.id, hNow)
      [] OTHER ->
             csrfVerifyTokenSessionless(SignSecret, b64DecodeString(tok).bytes)

\* The request passed the checks that come before the token check.
ReachesTokenCheck ==
    /\ hPc = "served"
    /\ NonExempt
    /\ PassesOriginCheck
    /\ hVariant = "signed" => hReq.session.ok

\* C24: the token that decides a request is the X-CSRF-Token header when
\* it is not empty, else the POST form field when it is not empty, else the
\* first value of the multipart form field, else the empty token: the
\* request is accepted when that token verifies and is not let through to
\* the downstream handler when it does not, so that an invalid header
\* token is rejected even when the form field holds a valid token.
C24_TokenPrecedence ==
    ReachesTokenCheck =>
        IF TokenVerifies(SelectedToken) THEN Accepted
        ELSE ~hResp.invoked /\ hResp.status # 200

\* An invalid header token was rejected although the form field held a
\* valid token.
C24_Witness ==
    /\ ReachesTokenCheck
    /\ hReq.header # <<>>
    /\ ~TokenVerifies(hReq.header)
    /\ hReq.form # <<>>
    /\ TokenVerifies(hReq.form)
    /\ Rejected


(***************************************************************************)
(* Signed tokens whose expiry is changed between creation and              *)
(* verification: the MAC bytes are kept.                                   *)
(***************************************************************************)
\* The expiry bytes of a token and its MAC bytes.
expiryOf(token) == SubSeq(token, 1, 2 * FieldBytes)
macOf(token) == SubSeq(token, 2 * FieldBytes + 1, Len(token))

\* The token csrfCreateToken returned in CreateStep.
CreatedToken == csrfCreateToken(SignSecret, tSession, tDuration, tCreated)

\* The expiry fields an attacker tries: one bit of the signed expiry
\* changed, or the expiry of another duration or another time of creation.
OtherExpiries ==
    ({expiryOf(flipBit(tToken, i, k)) : i \in 1..(2 * FieldBytes), k \in 0..7}
     \cup {expiryOf(csrfCreateToken(SignSecret, tSession, d, t)) :
              d \in 0..(2 * MaxDuration),
              t \in StartTime..(StartTime + MaxElapsed)})
    \ {expiryOf(tToken)}

\* The expiry bytes of the token are replaced, the MAC bytes are kept.
TamperExpiry ==
    /\ tPc = "created"
    /\ tToken = CreatedToken
    /\ \E e \in OtherExpiries : tToken' = e \o macOf(tToken)
    /\ UNCHANGED <<tNow, tSession, tDuration, tCreated, tVerifySession,
                   tVerdict, tPc, notTokenVars>>

NextTamper ==
    \/ CreateStep
    \/ TickStep
    \/ TamperExpiry
    \/ VerifyTokenStep

InitTamper == TokenInit /\ CodecIdle /\ HandlerIdle /\ ConfigIdle /\ IfIdle /\ RecovererIdle /\ MethodsIdle /\ CorsIdle /\ ChainIdle /\ TracerIdle /\ MetricsIdle /\ ConcIdle /\ MuxIdle

SpecTamper == InitTamper /\ [][NextTamper]_vars

\* C25: a token whose expiry bytes differ from the ones csrfCreateToken
\* signed, with the MAC bytes unchanged, is rejected by csrfVerifyToken
\* whatever the session and the clock: no token is accepted with another
\* expiry than the signed one.
C25_ExpiryIsSigned ==
    /\ (tPc = "verified" /\ expiryOf(tToken) # expiryOf(CreatedToken))
           => tVerdict = "false"
    /\ (tPc = "verified" /\ tVerdict = "true") => tToken = CreatedToken

\* A token whose expiry was moved into the future, presented with its own
\* session, was rejected.
C25_Witness ==
    /\ tPc = "verified"
    /\ tToken # CreatedToken
    /\ macOf(tToken) = macOf(CreatedToken)
    /\ tVerifySession = tSession
    /\ tNow < timeUnix(getInt(SubSeq(tToken, 1, FieldBytes)), getInt(SubSeq(tToken, FieldBytes + 1, 2 * FieldBytes)))
    /\ tNow >= tCreated + tDuration
    /\ tVerdict = "false"


\* C26: in the masked variant, every request that reaches the downstream
\* handler has the X-CSRF-Token response header set, the token of its
\* context (GetCSRFToken) is the value of that header, and that value
\* passes csrfVerify against the cookie in effect: the cookie of the
\* request, or the one the response sets.
C26_TokenIssuance ==
    (hPc = "served" /\ hVariant = "masked" /\ hResp.invoked) =>
        /\ hResp.csrfHeader # <<>>
        /\ hResp.ctxToken = hResp.csrfHeader
        /\ csrfVerify(MaskSecret, CookieInEffect, hResp.csrfHeader) = "true"

\* A request without a usable cookie reached the downstream handler: the
\* response sets a new cookie and carries a token for it.
C26_Witness ==
    /\ hPc = "served"
    /\ hVariant = "masked"
    /\ hResp.invoked
    /\ hResp.setCookie # <<>>
    /\ hResp.setCookie # hReq.cookie
    /\ csrfVerify(MaskSecret, hResp.setCookie, hResp.csrfHeader) = "true"


(***************************************************************************)
(* One CSRF handler serving requests on several goroutines.  A goroutine   *)
(* runs the handler in the steps of its code; the steps of different       *)
(* goroutines interleave.  The clock does not advance while the requests   *)
(* are in flight.                                                          *)
(***************************************************************************)
NoRun ==
    [pc |-> "idle", req |-> NoRequest, cookieNoise |-> <<>>,
     nonceNoise |-> <<>>, realToken |-> <<>>, masked |-> <<>>,
     w |-> NoResponse, overlapped |-> FALSE]

\* The array a goroutine's invocation uses as rbuf, all the same: a faulty
\* handler that declares rbuf outside of the closure.
rbufShared(g) == 1

\* The array a goroutine's invocation uses as rbuf: a variable of the
\* closure's body, one per invocation.
rbufOf(g) == g

\* Another goroutine is in the middle of the handler.
othersRunning(g) ==
    \E o \in Goroutines \ {g} : cRun[o].pc \notin {"idle", "done"}

\* Goroutine g has taken a step and now holds run.
stepTo(g, run) ==
    cRun' = [cRun EXCEPT ![g] =
                [run EXCEPT !.overlapped = @ \/ othersRunning(g)]]

\* A cookie the handler issued earlier, and a token for it.
ConcCookie == b64Encode([i \in 1..csrfTokenLength |-> 90])
ConcMaskedToken ==
    b64Encode(csrfMask(MaskSecret,
                       Zeros(csrfTokenLength) \o [i \in 1..csrfTokenLength |-> 90],
                       [i \in 1..csrfTokenLength |-> 165]))
ConcSignedToken ==
    b64Encode(csrfCreateToken(SignSecret, <<65>>, Expires, StartTime))

ConcRequests ==
    {Request(m, sch, PathA, <<>>, <<>>, <<>>, h, <<>>, <<>>, c, ses) :
        m \in {"GET", "POST"}, sch \in {"http", "https"},
        h \in {<<>>, IF cVariant = "masked" THEN ConcMaskedToken
                     ELSE ConcSignedToken},
        c \in IF cVariant = "masked" THEN {<<>>, ConcCookie} ELSE {<<>>},
        ses \in IF cVariant = "masked" THEN {NoSession}
                ELSE {NoSession, Session(<<65>>)}}

\* What randomNoise writes: only the masked handler calls it.
ConcNoise == IF cVariant = "masked" THEN NoiseVals ELSE {NoValue}

ConcInit ==
    /\ cVariant \in {"masked", "signed"}
    /\ cConfig = [secret |-> IF cVariant = "masked" THEN MaskSecret ELSE SignSecret,
                  exemptFunc |-> NilFunc, exemptPaths |-> <<>>,
                  expires |-> Expires]
    /\ cRun = [g \in Goroutines |-> NoRun]
    /\ cBuf = [g \in Goroutines |-> Zeros(2 * csrfTokenLength)]

\* The server calls the handler for a request on goroutine g.  The masked
\* handler starts with a zeroed rbuf, adds Vary: Cookie and reads the
\* cookie.
ArriveConc(g, req, cookieNoise, nonceNoise) ==
    /\ cRun[g].pc = "idle"
    /\ stepTo(g, [NoRun EXCEPT
                     !.pc = IF cVariant = "masked" THEN "cookie" ELSE "check",
                     !.req = req,
                     !.cookieNoise = cookieNoise,
                     !.nonceNoise = nonceNoise,
                     !.realToken = req.cookie,
                     !.w = IF cVariant = "masked"
                             THEN headerAddVary(NoResponse, "Cookie")
                             ELSE NoResponse])
    /\ cBuf' = IF cVariant = "masked"
                 THEN [cBuf EXCEPT ![rbufOf(g)] = Zeros(2 * csrfTokenLength)]
                 ELSE cBuf
    /\ UNCHANGED <<cVariant, cConfig, notConcVars>>

\* Masked: decode the cookie token into rbuf[csrfTokenLength:] and
\* regenerate it if it is invalid.
DecodeCookie(g) ==
    /\ cRun[g].pc = "cookie"
    /\ LET run == cRun[g]
           dec == b64Decode(csrfTokenLength, run.realToken)
           regen == Len(dec.bytes) # csrfTokenLength
           cookieToken == IF regen THEN run.cookieNoise ELSE dec.bytes
       IN  IF dec.panic
             THEN /\ stepTo(g, [run EXCEPT !.pc = "done", !.w.panicked = TRUE])
                  /\ cBuf' = cBuf
             ELSE /\ cBuf' = [cBuf EXCEPT ![rbufOf(g)] = nonceOf(@) \o cookieToken]
                  /\ stepTo(g, [run EXCEPT
                                   !.pc = "mask",
                                   !.realToken = IF regen THEN b64Encode(cookieToken)
                                                 ELSE @,
                                   !.w.setCookie = IF regen THEN b64Encode(cookieToken)
                                                   ELSE @])
    /\ UNCHANGED <<cVariant, cConfig, notConcVars>>

\* Masked: mask the real token in rbuf and store it in the request context.
MaskToken(g) ==
    /\ cRun[g].pc = "mask"
    /\ LET rbuf == csrfMask(cConfig.secret, cBuf[rbufOf(g)], cRun[g].nonceNoise)
       IN  /\ cBuf' = [cBuf EXCEPT ![rbufOf(g)] = rbuf]
           /\ stepTo(g, [cRun[g] EXCEPT !.pc = "origin", !.masked = b64Encode(rbuf)])
    /\ UNCHANGED <<cVariant, cConfig, notConcVars>>

\* Masked: compare the referer with the URL of a non-exempt https request.
CheckReferer(g) ==
    /\ cRun[g].pc = "origin"
    /\ LET run == cRun[g]
           ex == exempt(cConfig.exemptFunc, cConfig.exemptPaths, run.req)
           referer == urlParse(run.req.referer)
       IN  IF /\ ~ex
              /\ run.req.scheme = "https"
              /\ \/ ~referer.ok
                 \/ referer.text = <<>>
                 \/ ~sameOrigin(referer, requestURL(run.req))
             THEN stepTo(g, [run EXCEPT
                                !.pc = "done",
                                !.w = errorResponse(@, "Forbidden", {"origin"})])
             ELSE stepTo(g, [run EXCEPT !.pc = "verify"])
    /\ UNCHANGED <<cVariant, cConfig, cBuf, notConcVars>>

\* Masked: verify the sent token, set X-CSRF-Token and call next.
VerifySent(g) ==
    /\ cRun[g].pc = "verify"
    /\ LET run == cRun[g]
           ex == exempt(cConfig.exemptFunc, cConfig.exemptPaths, run.req)
           cs1 == IF ~ex /\ run.req.scheme = "https" THEN {"origin"} ELSE {}
           cs2 == IF ~ex THEN cs1 \cup {"token"} ELSE cs1
           verdict == IF ex THEN "true"
                      ELSE csrfVerify(cConfig.secret, run.realToken,
                                      extractToken(run.req))
           w == IF verdict = "panic"
                  THEN [run.w EXCEPT !.panicked = TRUE, !.checks = cs2]
                ELSE IF verdict = "false"
                  THEN errorResponse(run.w, "csrf validation failed", cs2)
                ELSE nextResponse([run.w EXCEPT !.csrfHeader = run.masked,
                                                !.ctxToken = run.masked],
                                  cs2)
       IN  stepTo(g, [run EXCEPT !.pc = "done", !.w = w])
    /\ UNCHANGED <<cVariant, cConfig, cBuf, notConcVars>>

\* Signed: the origin check, the session check and the token check of a
\* request that is not exempt.
CheckSigned(g) ==
    /\ cRun[g].pc = "check"
    /\ LET run == cRun[g]
           req == run.req
           ex == exempt(cConfig.exemptFunc, cConfig.exemptPaths, req)
           token == b64DecodeString(extractToken(req)).bytes
           cs1 == IF ~ex /\ req.scheme = "https" THEN {"origin"} ELSE {}
           cs2 == IF ~ex THEN cs1 \cup {"session"} ELSE cs1
           cs3 == IF ~ex THEN cs2 \cup {"token"} ELSE cs2
           reject(cs) == stepTo(g, [run EXCEPT
                                       !.pc = "done",
                                       !.w = errorResponse(@, "Forbidden", cs)])
       IN  IF /\ ~ex
              /\ req.scheme = "https"
              /\ ~sameOrigin(sourceOrigin(req, requestURL(req)),
                             targetOrigin(req, requestURL(req)))
             THEN reject(cs1)
           ELSE IF ~ex /\ ~req.session.ok
             THEN reject(cs2)
           ELSE IF ~ex /\ ~csrfVerifyToken(cConfig.secret, token,
                                           req.session.id, StartTime)
             THEN reject(cs3)
           ELSE stepTo(g, [run EXCEPT !.pc = "issue", !.w.checks = cs3])
    /\ UNCHANGED <<cVariant, cConfig, cBuf, notConcVars>>

\* Signed: generate a new token for the session, if any, and call next.
IssueSigned(g) ==
    /\ cRun[g].pc = "issue"
    /\ LET run == cRun[g]
           w1 == IF run.req.session.ok
                   THEN [run.w EXCEPT !.csrfHeader =
                            b64Encode(csrfCreateToken(cConfig.secret,
                                                      run.req.session.id,
                                                      cConfig.expires, StartTime))]
                   ELSE run.w
       IN  stepTo(g, [run EXCEPT !.pc = "done",
                                 !.w = nextResponse(w1, run.w.checks)])
    /\ UNCHANGED <<cVariant, cConfig, cBuf, notConcVars>>

\* The handler has returned: the goroutine is free for another request.
ReturnConc(g) ==
    /\ cRun[g].pc = "done"
    /\ cRun' = [cRun EXCEPT ![g] = NoRun]
    /\ UNCHANGED <<cVariant, cConfig, cBuf, notConcVars>>

NextConc ==
    \/ \E g \in Goroutines, req \in ConcRequests, cn \in ConcNoise, nn \in ConcNoise : ArriveConc(g, req, cn, nn)
    \/ \E g \in Goroutines : DecodeCookie(g)
    \/ \E g \in Goroutines : MaskToken(g)
    \/ \E g \in Goroutines : CheckReferer(g)
    \/ \E g \in Goroutines : VerifySent(g)
    \/ \E g \in Goroutines : CheckSigned(g)
    \/ \E g \in Goroutines : IssueSigned(g)
    \/ \E g \in Goroutines : ReturnConc(g)

InitConc == ConcInit /\ CodecIdle /\ TokenIdle /\ HandlerIdle /\ ConfigIdle /\ IfIdle /\ RecovererIdle /\ MethodsIdle /\ CorsIdle /\ ChainIdle /\ TracerIdle /\ MetricsIdle /\ MuxIdle

SpecConc == InitConc /\ [][NextConc]_vars

\* The response the handler gives to the request of goroutine g when it
\* serves it alone.
aloneResponse(g) ==
    IF cVariant = "masked"
      THEN maskedHandler(MaskSecret, NilFunc, <<>>, cRun[g].req,
                         cRun[g].cookieNoise, cRun[g].nonceNoise)
      ELSE signedHandler(SignSecret, Expires, NilFunc, <<>>, cRun[g].req,
                         StartTime)

\* Every request that has been served has the response it gets alone.
ServedAsAlone ==
    \A g \in Goroutines :
        cRun[g].pc = "done" => cRun[g].w = aloneResponse(g)

\* C27: whatever the interleaving of the requests that one CSRF handler
\* serves concurrently, each request gets the response (status, headers,
\* cookie and token) it gets when it is served alone, and no step of the
\* handler changes the configuration it was constructed with.
C27_RequestIsolation ==
    /\ []ServedAsAlone
    /\ [][cConfig' = cConfig /\ cVariant' = cVariant]_vars

\* A non-exempt request was accepted while another request was in the
\* middle of the handler.
C27_Witness ==
    \E g \in Goroutines :
        /\ cRun[g].pc = "done"
        /\ cRun[g].overlapped
        /\ cRun[g].req.method = "POST"
        /\ cRun[g].w = aloneResponse(g)
        /\ cRun[g].w.invoked
        /\ othersRunning(g)


(***************************************************************************)
(* ServeMux.  Routes are registered with plain handlers, for which Methods *)
(* returns its argument; a pattern is a sequence of characters.            *)
(***************************************************************************)
\* strings.HasSuffix(pattern, "/")
hasTrailingSlash(pattern) == pattern # <<>> /\ pattern[Len(pattern)] = "/"

\* A faulty Use that puts the new middlewares in front of the old ones.
prependMiddlewares(middlewares, mws) == mws \o middlewares

\* append(mux.middlewares, mws...)
appendMiddlewares(middlewares, mws) == middlewares \o mws

\* StripPrefix(prefix, h) for a request whose path starts with the prefix.
stripPrefix(h) == <<[kind |-> "pass", id |-> "strip"]>> \o h

MuxMiddlewares ==
    {[kind |-> "pass", id |-> "a"], [kind |-> "pass", id |-> "b"],
     [kind |-> "stop", id |-> "c"]}

MuxPatterns == {<<"/", "a">>, <<"/", "b", "/">>, <<"/", "c", "/">>}

MuxInit ==
    /\ sMiddlewares = <<>>
    /\ sRoutes = <<>>
    /\ sUseLog = <<>>
    /\ sServed = <<>>
    /\ sTrace = <<>>
    /\ sPanic = ""

\* mux.Use(mws...)
Use(mws) ==
    /\ sPanic = ""
    /\ Len(sUseLog) < MaxUses
    /\ sMiddlewares' = appendMiddlewares(sMiddlewares, mws)
    /\ sUseLog' = Append(sUseLog, mws)
    /\ UNCHANGED <<sRoutes, sServed, sTrace, sPanic, notMuxVars>>

\* mux.serveMux.Handle(pattern, mux.middlewares.Handler(Methods(handler))):
\* http.ServeMux panics when the pattern is registered already.
register(pattern, handler, mounted) ==
    IF pattern \in DOMAIN sRoutes
      THEN /\ sPanic' = "http: multiple registrations"
           /\ UNCHANGED sRoutes
      ELSE /\ sRoutes' = [p \in DOMAIN sRoutes \cup {pattern} |->
                            IF p = pattern
                              THEN [handler |-> chainHandler(sMiddlewares, handler),
                                    uses |-> Len(sUseLog),
                                    mounted |-> mounted]
                              ELSE sRoutes[p]]
           /\ UNCHANGED sPanic

\* mux.Handle(pattern, handler)
Handle(pattern) ==
    /\ sPanic = ""
    /\ register(pattern, TheEndpoint, FALSE)
    /\ UNCHANGED <<sMiddlewares, sUseLog, sServed, sTrace, notMuxVars>>

\* mux.Mount(pattern, handler)
Mount(pattern) ==
    /\ sPanic = ""
    /\ IF ~hasTrailingSlash(pattern)
         THEN /\ sPanic' = "httpsy: pattern has no trailing slash"
              /\ UNCHANGED sRoutes
         ELSE register(pattern, stripPrefix(TheEndpoint), TRUE)
    /\ UNCHANGED <<sMiddlewares, sUseLog, sServed, sTrace, notMuxVars>>

\* mux.ServeHTTP(w, r) for a request that matches the pattern.
ServeRoute(pattern) ==
    /\ sPanic = ""
    /\ pattern \in DOMAIN sRoutes
    /\ sServed' = pattern
    /\ sTrace' = serveLayers(sRoutes[pattern].handler, 1)
    /\ UNCHANGED <<sMiddlewares, sRoutes, sUseLog, sPanic, notMuxVars>>

NextMux ==
    \/ \E mws \in UNION {[1..n -> MuxMiddlewares] : n \in 1..2} : Use(mws)
    \/ \E pattern \in MuxPatterns : Handle(pattern)
    \/ \E pattern \in MuxPatterns : Mount(pattern)
    \/ \E pattern \in MuxPatterns : ServeRoute(pattern)

InitMux == MuxInit /\ CodecIdle /\ TokenIdle /\ HandlerIdle /\ ConfigIdle /\ IfIdle /\ RecovererIdle /\ MethodsIdle /\ CorsIdle /\ ChainIdle /\ TracerIdle /\ MetricsIdle /\ ConcIdle

SpecMux == InitMux /\ [][NextMux]_vars

\* The middlewares of the first n Use calls, in the order they were added.
RECURSIVE addedBy(_)
addedBy(n) == IF n = 0 THEN <<>> ELSE addedBy(n - 1) \o sUseLog[n]

\* What runs when the middlewares mws are applied in order, from the i-th,
\* to a handler whose own layers are rest.
RECURSIVE runsInOrder(_, _, _)
runsInOrder(mws, i, rest) ==
    IF i > Len(mws) THEN rest
    ELSE IF mws[i].kind = "pass" THEN <<mws[i].id>> \o runsInOrder(mws, i + 1, rest)
    ELSE <<mws[i].id>>

\* The layers of the handler that was registered, without middlewares.
ownLayers(route) ==
    IF route.mounted THEN <<"strip", "endpoint">> ELSE <<"endpoint">>

\* C28: the handler of every route has as its middlewares exactly those of
\* the Use calls made before the route was registered, in the order they
\* were added, whatever Use calls were made since; and a request to the
\* route runs them in that order.
C28_RegistrationOrder ==
    /\ \A p \in DOMAIN sRoutes :
           LET route == sRoutes[p]
               before == addedBy(route.uses)
           IN  /\ Len(route.handler) = Len(before) + Len(ownLayers(route))
               /\ \A i \in 1..Len(before) : route.handler[i] = before[i]
    /\ sServed # <<>> =>
           sTrace = runsInOrder(addedBy(sRoutes[sServed].uses), 1,
                                ownLayers(sRoutes[sServed]))

\* A route registered between two Use calls was served: the middlewares of
\* the first call ran, those of the second did not.
C28_Witness ==
    /\ sServed # <<>>
    /\ sRoutes[sServed].uses = 1
    /\ Len(sUseLog) = 2
    /\ Len(sUseLog[1]) = 2
    /\ sUseLog[1][1] # sUseLog[1][2]
    /\ sUseLog[2][1] \notin {sUseLog[1][1], sUseLog[1][2]}
    /\ sTrace = runsInOrder(sUseLog[1], 1, ownLayers(sRoutes[sServed]))
    /\ Len(sTrace) >= 3


\* The request carries a token the client was issued, with the session it
\* was issued for.
CarriesValidToken ==
    \E i \in hIssued : Presents(i.token) /\ SameBinding(i)

\* C29: in the signed variants, a non-exempt https request whose declared
\* origin (Origin, else Referer) is https://H, whose X-Forwarded-Host
\* header names the same host H, and which carries a valid token (and
\* session), passes the origin check and reaches the downstream handler.
C29_ProxiedRequestPasses ==
    ( /\ hPc = "served"
      /\ hVariant \in {"signed", "sessionless"}
      /\ NonExempt
      /\ hReq.scheme = "https"
      /\ DeclaredOrigin = URLOf("https", "example.com")
      /\ hReq.xfh = <<"example.com">>
      /\ CarriesValidToken )
    => Accepted


(***************************************************************************)
(* The sessionless server, with clients that present issued and forged     *)
(* tokens from any origin.                                                 *)
(***************************************************************************)
BearerRequests ==
    {Request(m, sch, PathA, org, <<>>, <<>>, h, <<>>, <<>>, <<>>, NoSession) :
        m \in {"GET", "POST"}, sch \in {"http", "https"},
        org \in {<<>>, URLOf("https", "example.com"), URLOf("https", "evil.com")},
        h \in SourceTokens}

ServeBearer == \E req \in BearerRequests : Serve(req)

BearerInit ==
    /\ hVariant = "sessionless"
    /\ hExemptFunc = NilFunc
    /\ hExemptPaths = <<>>
    /\ hNow = StartTime
    /\ hIssued = {}
    /\ hPc = "idle"
    /\ hReq = NoRequest
    /\ hResp = NoResponse
    /\ hSeen = {}

NextBearer ==
    \/ ServeBearer
    \/ Receive

InitBearer == BearerInit /\ CodecIdle /\ TokenIdle /\ ConfigIdle /\ IfIdle /\ RecovererIdle /\ MethodsIdle /\ CorsIdle /\ ChainIdle /\ TracerIdle /\ MetricsIdle /\ ConcIdle /\ MuxIdle

SpecBearer == InitBearer /\ [][NextBearer]_vars

\* The token of the request decodes to csrfTokenLength bytes followed by
\* their keyed hash under the secret.
WellSigned ==
    LET token == b64DecodeString(SelectedToken).bytes
    IN  /\ Len(token) = csrfTokenLength + macLength
        /\ SubSeq(token, csrfTokenLength + 1, Len(token)) =
               hmacSum(SignSecret, SubSeq(token, 1, csrfTokenLength))

\* C30 as stated: in the sessionless variant a non-exempt request is
\* accepted if and only if its token decodes to the noise bytes followed
\* by their keyed hash under the secret, whatever else the request holds:
\* every token ever issued is accepted on every later non-exempt request.
C30_BearerTokens ==
    (hPc = "served" /\ hVariant = "sessionless" /\ NonExempt) =>
        /\ Accepted <=> WellSigned
        /\ (\E i \in hIssued : Presents(i.token)) => Accepted

\* C30, amended: the same for the requests that pass the origin check; a
\* request that does not pass it is rejected whatever its token.
C30_BearerTokensIfOriginPasses ==
    (hPc = "served" /\ hVariant = "sessionless" /\ NonExempt) =>
        /\ Accepted <=> (WellSigned /\ PassesOriginCheck)
        /\ ((\E i \in hIssued : Presents(i.token)) /\ PassesOriginCheck)
               => Accepted
        /\ ~Accepted => Rejected

\* A token issued earlier was accepted on a later non-exempt https
\* request, the handler having issued another token in its response.
C30_Witness ==
    /\ hPc = "served"
    /\ hVariant = "sessionless"
    /\ NonExempt
    /\ hReq.scheme = "https"
    /\ \E i \in hIssued : Presents(i.token) /\ hResp.csrfHeader # i.token
    /\ Accepted

=============================================================================
